---- MODULE Spec2Model ----
(***************************************************************************)
(* Model of backend/data_service.py (DataCache, FinancialDataService, main) *)
(* and backend/realtime_service.py (RealtimeDataService, main).             *)
(*                                                                         *)
(* Conventions                                                             *)
(*  - A Python str is a sequence of atoms.  An atom is a character         *)
(*    Ch("6"), or a date token: DateTok(d) stands for the ten characters   *)
(*    'YYYY-MM-DD' of day d, UDateTok(d) for a rendering of day d without  *)
(*    zero padding ('2024-1-5'), which strptime accepts and strftime never *)
(*    produces.  Date tokens contain no underscore and no digit test is    *)
(*    ever applied to them.  None and '' are both the empty sequence: the  *)
(*    code only ever tests them with "not x" / x == "".                    *)
(*  - Day 0 is Monday 2024-01-01; a datetime is a number of seconds since  *)
(*    the start of day 0, so strptime(d) = d * 86400 and strftime floors.  *)
(*  - time.time() and datetime.now() both read the variable clock.         *)
(***************************************************************************)
EXTENDS Integers, Sequences, FiniteSets, TLC

VARIABLES
    clock,     \* wall clock: seconds since the start of day 0
    disk,      \* CACHE_DIR: cache file name -> [mtime, ok, env]
    svcCache,  \* class name -> the instance's realtime_cache / cache
    svcLast,   \* class name -> the instance's last_realtime_update / last_update
    inp,       \* the arguments of the call in progress (pure-function specifications)
    out,       \* what the last call returned, printed and did
    ncalls     \* invocations so far

vars == <<clock, disk, svcCache, svcLast, inp, out, ncalls>>

(***************************************************************************)
(* Strings                                                                 *)
(***************************************************************************)
Ch(c) == [k |-> "ch", c |-> c, d |-> 0]

DateTok(d) == [k |-> "date", c |-> "", d |-> d]

UDateTok(d) == [k |-> "udate", c |-> "", d |-> d]

Chars(s) == [i \in DOMAIN s |-> Ch(s[i])]

(***************************************************************************)
(* Symbols: INDEX_CODE_MAPPING and _identify_symbol_type                   *)
(***************************************************************************)
Sym000001SH == Chars(<<"0","0","0","0","0","1",".","S","H">>)
Sym399001SZ == Chars(<<"3","9","9","0","0","1",".","S","Z">>)
Sym399006SZ == Chars(<<"3","9","9","0","0","6",".","S","Z">>)
Sym399005SZ == Chars(<<"3","9","9","0","0","5",".","S","Z">>)
Sym000300SH == Chars(<<"0","0","0","3","0","0",".","S","H">>)
Sym000905SH == Chars(<<"0","0","0","9","0","5",".","S","H">>)
Sym000852SH == Chars(<<"0","0","0","8","5","2",".","S","H">>)
Sym600000 == Chars(<<"6","0","0","0","0","0">>)
SymABC123 == Chars(<<"A","B","C","1","2","3">>)
\* six characters, the third a superscript two: str.isdigit() is True for it
Sym00Sup2345 == Chars(<<"0","0","sup2","3","4","5">>)

\* data_service.INDEX_CODE_MAPPING: the keys
INDEX_CODE_MAPPING ==
    {Sym000001SH, Sym399001SZ, Sym399006SZ, Sym399005SZ,
     Sym000300SH, Sym000905SH, Sym000852SH}

\* realtime_service.INDEX_CODE_MAPPING: the keys (000852.SH is not among them)
RT_INDEX_CODE_MAPPING ==
    {Sym000001SH, Sym399001SZ, Sym399006SZ, Sym399005SZ,
     Sym000300SH, Sym000905SH}

AsciiDigits == {"0","1","2","3","4","5","6","7","8","9"}

\* The characters c of the model's alphabet with c.isdigit() True: the ASCII
\* digits and the superscript two (U+00B2, Numeric_Type=Digit).
IsDigitChars == AsciiDigits \cup {"sup2"}

\* str.isdigit(): non-empty and every character is a digit character
isdigit(s) == Len(s) > 0 /\ \A i \in DOMAIN s : s[i].k = "ch" /\ s[i].c \in IsDigitChars

\* str.startswith(p) for a two-character prefix given as <<c1, c2>>
startswith2(s, p) == Len(s) >= 2 /\ s[1] = Ch(p[1]) /\ s[2] = Ch(p[2])

_identify_symbol_type(symbol) ==
    IF symbol \in INDEX_CODE_MAPPING THEN "index"
    ELSE IF Len(symbol) = 6 /\ isdigit(symbol)
            /\ (\/ startswith2(symbol, <<"0","0">>)
                \/ startswith2(symbol, <<"3","0">>)
                \/ startswith2(symbol, <<"6","0">>))
         THEN "stock"
         ELSE "unknown"

(***************************************************************************)
(* Dates: strptime / strftime and _validate_date_range                     *)
(***************************************************************************)
DaySeconds == 24 * 3600

\* datetime.strptime(s, '%Y-%m-%d') succeeds
Parses(s) == Len(s) = 1 /\ s[1].k \in {"date", "udate"}

strptime(s) == s[1].d * DaySeconds

\* dt.strftime('%Y-%m-%d')
strftime(dt) == <<DateTok(dt \div DaySeconds)>>

\* the day a canonical date string names
DayOf(s) == s[1].d

MaxRangeDays == 730

DefaultRangeDays == 30

\* a variant whose default range is the longest range allowed
DefaultRange_longest(now) == <<strftime(now - MaxRangeDays * DaySeconds), strftime(now)>>

DefaultRange(now) == <<strftime(now - DefaultRangeDays * DaySeconds), strftime(now)>>

_validate_date_range(start_date, end_date, now) ==
    IF start_date = <<>> \/ end_date = <<>> THEN DefaultRange(now)
    ELSE IF ~Parses(start_date) \/ ~Parses(end_date) THEN DefaultRange(now)
    ELSE LET s0 == strptime(start_date)
             e0 == strptime(end_date)
             s1 == IF s0 > e0 THEN e0 ELSE s0
             e1 == IF s0 > e0 THEN s0 ELSE e0
             e2 == IF e1 > now THEN now ELSE e1
             s2 == IF e2 - s1 > MaxRangeDays * DaySeconds
                   THEN e2 - MaxRangeDays * DaySeconds ELSE s1
         IN  <<strftime(s2), strftime(e2)>>

(***************************************************************************)
(* Numbers: a Python float or int, or NaN (pandas' missing value)          *)
(***************************************************************************)
Num(v) == [nan |-> FALSE, v |-> v]

NaN == [nan |-> TRUE, v |-> 0]

\* pd.notna(x)
notna(x) == ~x.nan

\* x > y in Python: False whenever either side is NaN
GT(x, y) == ~x.nan /\ ~y.nan /\ x.v > y.v

LT(x, y) == ~x.nan /\ ~y.nan /\ x.v < y.v

\* float(x) if pd.notna(x) else 0
FloatOr0(x) == IF notna(x) THEN x ELSE Num(0)

RECURSIVE PyMaxFrom(_, _, _)
PyMaxFrom(m, xs, i) ==
    IF i > Len(xs) THEN m
    ELSE PyMaxFrom(IF GT(xs[i], m) THEN xs[i] ELSE m, xs, i + 1)

\* max(xs) of a non-empty list: keeps the first of equal or incomparable items
PyMax(xs) == PyMaxFrom(xs[1], xs, 2)

RECURSIVE PyMinFrom(_, _, _)
PyMinFrom(m, xs, i) ==
    IF i > Len(xs) THEN m
    ELSE PyMinFrom(IF LT(xs[i], m) THEN xs[i] ELSE m, xs, i + 1)

\* min(xs) of a non-empty list
PyMin(xs) == PyMinFrom(xs[1], xs, 2)

\* round(x, 2) of a price of v thousandths: the nearest hundredth, a value
\* halfway between two of them going to the even one (the prices of the
\* model have no such value: for them the result depends on the binary
\* representation of the float)
round2(x) ==
    IF x.nan THEN x
    ELSE LET q == x.v \div 10
             r == x.v % 10
         IN  Num(10 * (IF r > 5 \/ (r = 5 /\ q % 2 = 1) THEN q + 1 ELSE q))

RECURSIVE SumVolume(_)
SumVolume(bars) ==
    IF bars = <<>> THEN 0 ELSE Head(bars).volume + SumVolume(Tail(bars))

\* [f(x) for x in xs if p(x)] for the two list comprehensions of the summary
Highs(bars) == [i \in DOMAIN bars |-> bars[i].high]

PositiveLows(bars) ==
    LET keep == SelectSeq(bars, LAMBDA b : GT(b.low, Num(0)))
    IN  [i \in DOMAIN keep |-> keep[i].low]

(***************************************************************************)
(* Provider tables.  A table is [raises, cols, rows]: the call raised, or   *)
(* returned a frame with the columns cols (named as after the rename) and   *)
(* the rows rows.  A row is [date, open, close, high, low, volume]; a cell  *)
(* is Num(v), or NaN when the provider's value is missing or not numeric    *)
(* (pd.to_numeric(errors='coerce')).                                        *)
(***************************************************************************)
AllCols == {"date", "open", "close", "high", "low", "volume"}

Row(d, o, c, h, l, v) ==
    [date |-> d, open |-> o, close |-> c, high |-> h, low |-> l, volume |-> v]

Raises == [raises |-> TRUE, cols |-> {}, rows |-> <<>>]

Table(cols, rows) == [raises |-> FALSE, cols |-> cols, rows |-> rows]

\* insertion of row r into rows, already sorted by date, after its equals
RECURSIVE InsertByDate(_, _)
InsertByDate(r, rows) ==
    IF rows = <<>> THEN <<r>>
    ELSE IF r.date < Head(rows).date THEN <<r>> \o rows
    ELSE <<Head(rows)>> \o InsertByDate(r, Tail(rows))

\* a variant that leaves the rows in the provider's order
sort_values_asgiven(rows) == rows

\* df.sort_values('date')
RECURSIVE sort_values(_)
sort_values(rows) ==
    IF rows = <<>> THEN <<>>
    ELSE InsertByDate(rows[Len(rows)], sort_values(SubSeq(rows, 1, Len(rows) - 1)))

(***************************************************************************)
(* The response envelope.  Every envelope of the model has the same fields:*)
(* error = "" and period = "" stand for "the key is absent".  name is      *)
(* "stock_" for '股票_<code>', "index_" for '指数_<code>' and "mapped" for *)
(* INDEX_CODE_MAPPING[code]['name'].  summary.changePercent is left out:   *)
(* no property below reads it.  A price Num(v) is v thousandths, so that    *)
(* round(x, 2) has something to round.                                     *)
(***************************************************************************)
ZeroSummary == [maxPrice |-> Num(0), minPrice |-> Num(0), avgVolume |-> 0]

_create_empty_response(symbol, symbol_type, message, now) ==
    [success |-> FALSE, code |-> symbol,
     name |-> IF symbol_type = "index" THEN "index_" ELSE "stock_",
     type |-> symbol_type, currentPrice |-> Num(0), data |-> <<>>,
     summary |-> ZeroSummary, error |-> message, dataCount |-> 0,
     lastUpdate |-> now, period |-> ""]

\* the value of a function that returned None
NoEnvelope == _create_empty_response(<<>>, "", "", 0)

\* one element of data_list
Bar(r, hasVolume) ==
    [date |-> r.date, open |-> FloatOr0(r.open), close |-> FloatOr0(r.close),
     high |-> FloatOr0(r.high), low |-> FloatOr0(r.low),
     volume |-> IF hasVolume /\ notna(r.volume) THEN r.volume.v ELSE 0]

\* the summary of a non-empty data_list; min() of an empty list raises ValueError
SummaryRaises(data_list) == PositiveLows(data_list) = <<>>

\* a variant whose minPrice is taken over every low
Summary_everyLow(data_list) ==
    [maxPrice |-> round2(PyMax(Highs(data_list))),
     minPrice |-> round2(PyMin([i \in DOMAIN data_list |-> data_list[i].low])),
     avgVolume |-> SumVolume(data_list) \div Len(data_list)]

Summary(data_list) ==
    [maxPrice |-> round2(PyMax(Highs(data_list))),
     minPrice |-> round2(PyMin(PositiveLows(data_list))),
     avgVolume |-> SumVolume(data_list) \div Len(data_list)]

RequiredColumns == {"date", "open", "close", "high", "low"}

\* required_columns, in the order of the list
required_columns == <<"date", "open", "close", "high", "low">>

\* a variant that reports only the first missing column
MissingColumns_first(cols) ==
    LET missing == SelectSeq(required_columns, LAMBDA c : c \notin cols)
    IN  IF missing = <<>> THEN missing ELSE <<missing[1]>>

\* missing_columns = [col for col in required_columns if col not in df_renamed.columns]
MissingColumns(cols) == SelectSeq(required_columns, LAMBDA c : c \notin cols)

\* str(xs) of a list of strings, without the brackets: 'a', 'b'
RECURSIVE PyListItems(_)
PyListItems(xs) ==
    IF xs = <<>> THEN ""
    ELSE IF Len(xs) = 1 THEN "'" \o xs[1] \o "'"
    ELSE "'" \o xs[1] \o "', " \o PyListItems(Tail(xs))

\* the message f"数据格式不完整，缺少列：{missing_columns}"
MissingMessage(missing) == "missing columns: [" \o PyListItems(missing) \o "]"

\* the list comprehension that builds data_list from the sorted rows
BarsOf(sorted, hasVolume) == [i \in DOMAIN sorted |-> Bar(sorted[i], hasVolume)]

\* a variant whose "data processing error" envelope keeps the bars
Normalized_keeps_data(data_list, symbol, symbol_type, now) ==
    IF SummaryRaises(data_list)
    THEN [_create_empty_response(symbol, symbol_type, "data processing error", now)
              EXCEPT !.data = data_list, !.dataCount = Len(data_list)]
    ELSE [success |-> TRUE, code |-> symbol,
          name |-> IF symbol_type = "index" /\ symbol \in INDEX_CODE_MAPPING
                   THEN "mapped" ELSE "stock_",
          type |-> symbol_type,
          currentPrice |-> data_list[Len(data_list)].close,
          data |-> data_list, summary |-> Summary(data_list),
          error |-> "", dataCount |-> Len(data_list),
          lastUpdate |-> now, period |-> ""]

\* _normalize_data_format from data_list on (lines 935-982): the summary,
\* the envelope, and the except clause around them
Normalized(data_list, symbol, symbol_type, now) ==
    IF SummaryRaises(data_list)
    THEN _create_empty_response(symbol, symbol_type, "data processing error", now)
    ELSE [success |-> TRUE, code |-> symbol,
          name |-> IF symbol_type = "index" /\ symbol \in INDEX_CODE_MAPPING
                   THEN "mapped" ELSE "stock_",
          type |-> symbol_type,
          currentPrice |-> data_list[Len(data_list)].close,
          data |-> data_list, summary |-> Summary(data_list),
          error |-> "", dataCount |-> Len(data_list),
          lastUpdate |-> now, period |-> ""]

_normalize_data_format(df, symbol, symbol_type, now) ==
    IF df.rows = <<>> THEN _create_empty_response(symbol, symbol_type, "no data", now)
    ELSE IF MissingColumns(df.cols) # <<>>
    THEN _create_empty_response(symbol, symbol_type,
                                MissingMessage(MissingColumns(df.cols)), now)
    ELSE Normalized(BarsOf(sort_values(df.rows), "volume" \in df.cols),
                    symbol, symbol_type, now)

(***************************************************************************)
(* DataCache.  The md5 digest and the file path are taken to be injective  *)
(* in the key string, so a file is named by its key string.  A file is     *)
(* [mtime, ok, env]: ok = FALSE is a file that does not hold a JSON        *)
(* document (a write that failed after truncating it).  json.dump followed *)
(* by json.load gives back the envelope's values unchanged.                *)
(***************************************************************************)
CACHE_EXPIRE_HOURS == 1

US == <<Ch("_")>>

_get_cache_key(symbol, start_date, end_date, data_type) ==
    symbol \o US \o start_date \o US \o end_date \o US \o data_type

TypeStock == Chars(<<"s","t","o","c","k">>)
TypeIndex == Chars(<<"i","n","d","e","x">>)
TypeMinute(period) == Chars(<<"m","i","n","u","t","e","_">>) \o period

\* The body of DataCache.get's try block: [raised, hit, env, disk]; hit =
\* FALSE is a return of None.  fault "io" is an OSError in exists,
\* getmtime, remove or open; json.load raises on a file that is not JSON.
\* a variant that already discards a file whose age is exactly the limit
CacheGetBody_ge(d, f, now, fault) ==
    LET res(raised, hit, env, dd) ==
            [raised |-> raised, hit |-> hit, env |-> env, disk |-> dd]
    IN  IF fault = "io" THEN res(TRUE, FALSE, NoEnvelope, d)
        ELSE IF f \notin DOMAIN d THEN res(FALSE, FALSE, NoEnvelope, d)
        ELSE IF now - d[f].mtime >= CACHE_EXPIRE_HOURS * 3600
        THEN res(FALSE, FALSE, NoEnvelope, [g \in DOMAIN d \ {f} |-> d[g]])
        ELSE IF ~d[f].ok THEN res(TRUE, FALSE, NoEnvelope, d)
        ELSE res(FALSE, TRUE, d[f].env, d)

\* a variant that sweeps every expired file on each lookup
CacheGetBody_sweep(d, f, now, fault) ==
    LET res(raised, hit, env, dd) ==
            [raised |-> raised, hit |-> hit, env |-> env, disk |-> dd]
        live == {g \in DOMAIN d : now - d[g].mtime <= CACHE_EXPIRE_HOURS * 3600}
    IN  IF fault = "io" THEN res(TRUE, FALSE, NoEnvelope, d)
        ELSE IF f \notin live THEN res(FALSE, FALSE, NoEnvelope, [g \in live |-> d[g]])
        ELSE IF ~d[f].ok THEN res(TRUE, FALSE, NoEnvelope, [g \in live |-> d[g]])
        ELSE res(FALSE, TRUE, d[f].env, [g \in live |-> d[g]])

CacheGetBody(d, f, now, fault) ==
    LET res(raised, hit, env, dd) ==
            [raised |-> raised, hit |-> hit, env |-> env, disk |-> dd]
    IN  IF fault = "io" THEN res(TRUE, FALSE, NoEnvelope, d)
        ELSE IF f \notin DOMAIN d THEN res(FALSE, FALSE, NoEnvelope, d)
        ELSE IF now - d[f].mtime > CACHE_EXPIRE_HOURS * 3600
        THEN res(FALSE, FALSE, NoEnvelope, [g \in DOMAIN d \ {f} |-> d[g]])
        ELSE IF ~d[f].ok THEN res(TRUE, FALSE, NoEnvelope, d)
        ELSE res(FALSE, TRUE, d[f].env, d)

\* a variant that never finds a file
DataCache_get_nohit(d, symbol, start_date, end_date, data_type, now, fault) ==
    [raised |-> FALSE, hit |-> FALSE, env |-> NoEnvelope, disk |-> d]

\* DataCache.get: "except Exception: return None"
DataCache_get(d, symbol, start_date, end_date, data_type, now, fault) ==
    LET body == CacheGetBody(d, _get_cache_key(symbol, start_date, end_date, data_type),
                             now, fault)
    IN  IF body.raised
        THEN [raised |-> FALSE, hit |-> FALSE, env |-> NoEnvelope, disk |-> body.disk]
        ELSE body

\* The body of DataCache.set's try block: [raised, disk].  fault "open" is a
\* failure to open the file, "dump" a failure after open() truncated it.
CacheSetBody(d, f, data, now, fault) ==
    LET put(file) == [g \in DOMAIN d \cup {f} |-> IF g = f THEN file ELSE d[g]]
    IN  CASE fault = "open" -> [raised |-> TRUE, disk |-> d]
          [] fault = "dump" ->
                [raised |-> TRUE,
                 disk |-> put([mtime |-> now, ok |-> FALSE, env |-> NoEnvelope])]
          [] OTHER ->
                [raised |-> FALSE,
                 disk |-> put([mtime |-> now, ok |-> TRUE, env |-> data])]

\* a variant without the except clause: the failure reaches the caller
DataCache_set_raising(d, symbol, start_date, end_date, data_type, data, now, fault) ==
    CacheSetBody(d, _get_cache_key(symbol, start_date, end_date, data_type),
                 data, now, fault)

\* DataCache.set: "except Exception: pass"
DataCache_set(d, symbol, start_date, end_date, data_type, data, now, fault) ==
    LET body == CacheSetBody(d, _get_cache_key(symbol, start_date, end_date, data_type),
                             data, now, fault)
    IN  [raised |-> FALSE, disk |-> body.disk]

\* what a service method hands back: the value, the cache directory
\* afterwards and the provider endpoints it called, in order
Ret(env, d, calls) == [none |-> FALSE, env |-> env, disk |-> d, calls |-> calls]

RetNone(d, calls) == [none |-> TRUE, env |-> NoEnvelope, disk |-> d, calls |-> calls]

(***************************************************************************)
(* FinancialDataService.get_stock_data.  pv holds the provider's answers   *)
(* and the file system's faults for this call.                             *)
(***************************************************************************)
get_stock_data(symbol, start_date0, end_date0, now, d, pv) ==
    LET calls == <<"stock_zh_a_hist">>
        \* the outer "except Exception"
        fail(dd, cc) ==
            Ret(_create_empty_response(symbol, "stock", "get stock data failed", now),
                dd, cc)
        \* after self.cache.set
        stored(result, put) ==
            IF put.raised THEN fail(put.disk, calls) ELSE Ret(result, put.disk, calls)
        \* after _normalize_data_format
        fetched(vr, got, result) ==
            IF ~result.success THEN Ret(result, got.disk, calls)
            ELSE stored(result,
                        DataCache_set(got.disk, symbol, vr[1], vr[2], TypeStock,
                                      result, now, pv.setFault))
        \* after self.cache.get
        looked(vr, got) ==
            IF got.raised THEN fail(got.disk, <<>>)
            ELSE IF got.hit THEN Ret(got.env, got.disk, <<>>)
            ELSE IF pv.hist.raises THEN fail(got.disk, calls)
            ELSE fetched(vr, got, _normalize_data_format(pv.hist, symbol, "stock", now))
        \* after _validate_date_range
        ranged(vr) ==
            looked(vr, DataCache_get(d, symbol, vr[1], vr[2], TypeStock, now, pv.getFault))
    IN  ranged(_validate_date_range(start_date0, end_date0, now))

(***************************************************************************)
(* Realtime quotes.  A spot answer is [raises, found, bad, row]: the call  *)
(* (or the selection of the code column) raised; the frame holds a row for *)
(* the code; a cell of the row is text float() rejects; the row's cells.   *)
(* A realtime result keeps the fields a later step reads; change_percent,  *)
(* change_amount, yesterday_close and turnover are left out.               *)
(***************************************************************************)
SpotRaises == [raises |-> TRUE, found |-> FALSE, bad |-> FALSE, row |-> Row(0, NaN, NaN, NaN, NaN, NaN)]

SpotEmpty == [raises |-> FALSE, found |-> FALSE, bad |-> FALSE, row |-> Row(0, NaN, NaN, NaN, NaN, NaN)]

SpotRow(r) == [raises |-> FALSE, found |-> TRUE, bad |-> FALSE, row |-> r]

SpotBad(r) == [raises |-> FALSE, found |-> TRUE, bad |-> TRUE, row |-> r]

weekday(now) == (now \div DaySeconds) % 7

TimeOfDay(h, m) == h * 3600 + m * 60

_get_market_status(now) ==
    LET t == now % DaySeconds
    IN  IF weekday(now) >= 5 THEN "closed"
        ELSE IF (TimeOfDay(9, 30) <= t /\ t <= TimeOfDay(11, 30))
                \/ (TimeOfDay(13, 0) <= t /\ t <= TimeOfDay(15, 0))
        THEN "trading" ELSE "closed"

RtFailure(symbol, message, now) ==
    [success |-> FALSE, code |-> symbol, name |-> "", current |-> Num(0),
     high |-> Num(0), low |-> Num(0), open |-> Num(0), volume |-> 0,
     error |-> message, update_time |-> now, market_status |-> "",
     data |-> <<>>, count |-> 0]

\* the success dictionary built from a spot row (data_service.py 535-550,
\* realtime_service.py 105-120)
RtIndexResult(symbol, row, now) ==
    [success |-> TRUE, code |-> symbol, name |-> "mapped", current |-> row.close,
     high |-> row.high, low |-> row.low, open |-> row.open,
     volume |-> IF notna(row.volume) THEN row.volume.v ELSE 0,
     error |-> "", update_time |-> now, market_status |-> _get_market_status(now),
     data |-> <<>>, count |-> 0]

\* no realtime result
NoRt == RtFailure(<<>>, "", 0)

KeyIndexRealtime(symbol) == <<Ch("index_realtime_")>> \o symbol

CacheDuration == 60

\* a variant that still serves an entry of exactly cache_duration seconds
RtFresh_le(rc, rl, key, now) ==
    key \in DOMAIN rc /\ key \in DOMAIN rl /\ now - rl[key] <= CacheDuration

\* an in-memory cache entry is served
RtFresh(rc, rl, key, now) ==
    key \in DOMAIN rc /\ key \in DOMAIN rl /\ now - rl[key] < CacheDuration

MapPut(m, k, v) == [x \in DOMAIN m \cup {k} |-> IF x = k THEN v ELSE m[x]]

RtRet(res, rc, rl, calls) == [res |-> res, rc |-> rc, rl |-> rl, calls |-> calls]

\* FinancialDataService.get_index_realtime_data on the maps rc
\* (realtime_cache) and rl (last_realtime_update)
FDS_get_index_realtime_data(symbol, now, rc, rl, pv) ==
    LET key == KeyIndexRealtime(symbol)
        first == <<"stock_zh_index_spot_em">>
        both == <<"stock_zh_index_spot_em", "index_zh_a_spot_em">>
        calls == IF pv.spot1.raises THEN both ELSE first
        spot == IF pv.spot1.raises THEN pv.spot2 ELSE pv.spot1
    IN  IF RtFresh(rc, rl, key, now) THEN RtRet(rc[key], rc, rl, <<>>)
        ELSE IF symbol \notin INDEX_CODE_MAPPING
        THEN RtRet(RtFailure(symbol, "unsupported index code", now), rc, rl, <<>>)
        ELSE IF spot.raises
        THEN RtRet(RtFailure(symbol, "get index realtime failed", now), rc, rl, calls)
        ELSE IF ~spot.found
        THEN RtRet(RtFailure(symbol, "index realtime not found", now), rc, rl, calls)
        ELSE IF spot.bad
        THEN RtRet(RtFailure(symbol, "get index realtime failed", now), rc, rl, calls)
        ELSE LET result == RtIndexResult(symbol, spot.row, now)
             IN  RtRet(result, MapPut(rc, key, result), MapPut(rl, key, now), calls)

(***************************************************************************)
(* FinancialDataService.get_index_data.  A frame has a date column iff     *)
(* "date" is among its columns (a datetime index or a date-like column     *)
(* name counts as one).  rc, rl: the instance's realtime maps.             *)
(***************************************************************************)
\* the cells a frame has no column for are NaN once a row that has them is appended
WithMissingCells(r, cols) ==
    [date |-> r.date,
     open |-> IF "open" \in cols THEN r.open ELSE NaN,
     close |-> IF "close" \in cols THEN r.close ELSE NaN,
     high |-> IF "high" \in cols THEN r.high ELSE NaN,
     low |-> IF "low" \in cols THEN r.low ELSE NaN,
     volume |-> IF "volume" \in cols THEN r.volume ELSE NaN]

RECURSIVE MaxDate(_)
MaxDate(rows) ==
    IF Len(rows) = 1 THEN rows[1].date
    ELSE LET m == MaxDate(Tail(rows))
         IN  IF rows[1].date > m THEN rows[1].date ELSE m

\* the rows of df whose date lies in [start_date, end_date]
InRange(rows, vr) ==
    SelectSeq(rows, LAMBDA r : r.date >= DayOf(vr[1]) /\ r.date <= DayOf(vr[2]))

\* the frame after today's row was appended (pd.concat)
WithTodayRow(df, inRange, today_row) ==
    IF inRange = <<>> THEN Table(AllCols, <<today_row>>)
    ELSE Table(df.cols \cup AllCols,
               [i \in DOMAIN inRange |-> WithMissingCells(inRange[i], df.cols)]
               \o <<today_row>>)

\* a variant for which no query ends today
EndsToday_never(end_date, today) == FALSE

\* end_date == today (lines 1071 and 1165)
EndsToday(end_date, today) == end_date = today

get_index_data(symbol, start_date0, end_date0, now, d, rc, rl, pv) ==
    LET today == strftime(now)
        first == <<"stock_zh_index_daily">>
        both == <<"stock_zh_index_daily", "index_zh_a_hist">>
        calls1 == IF pv.idx1.raises THEN both ELSE first
        df == IF pv.idx1.raises THEN pv.idx2 ELSE pv.idx1
        fail(message, dd, calls) ==
            Ret(_create_empty_response(symbol, "index", message, now), dd, calls)
        \* after self.cache.set
        stored(result, put, calls2) ==
            IF put.raised THEN fail("get index data failed", put.disk, calls2)
            ELSE Ret(result, put.disk, calls2)
        \* after _normalize_data_format
        normalized(vr, got, result, calls2) ==
            IF ~(result.success /\ ~EndsToday(vr[2], today))
            THEN Ret(result, got.disk, calls2)
            ELSE stored(result,
                        DataCache_set(got.disk, symbol, vr[1], vr[2], TypeIndex,
                                      result, now, pv.setFault),
                        calls2)
        \* after the realtime supplement of today's row
        supplemented(vr, got, inRange, rt) ==
            normalized(vr, got,
                       _normalize_data_format(
                           IF ~rt.res.success THEN Table(df.cols, inRange)
                           ELSE WithTodayRow(df, inRange,
                                             Row(DayOf(today), rt.res.open, rt.res.current,
                                                 rt.res.high, rt.res.low,
                                                 Num(rt.res.volume))),
                           symbol, "index", now),
                       calls1 \o rt.calls)
        \* after the date filter
        filtered(vr, got, inRange) ==
            IF /\ DayOf(vr[2]) >= DayOf(today)
               /\ weekday(now) < 5
               /\ (inRange = <<>> \/ MaxDate(inRange) < DayOf(today))
            THEN supplemented(vr, got, inRange,
                              FDS_get_index_realtime_data(symbol, now, rc, rl, pv))
            ELSE normalized(vr, got,
                            _normalize_data_format(Table(df.cols, inRange),
                                                   symbol, "index", now),
                            calls1)
        \* after self.cache.get
        looked(vr, got) ==
            IF got.raised THEN fail("get index data failed", got.disk, <<>>)
            ELSE IF got.hit /\ ~EndsToday(vr[2], today) THEN Ret(got.env, got.disk, <<>>)
            ELSE IF symbol \notin INDEX_CODE_MAPPING
            THEN fail("unsupported index code", got.disk, <<>>)
            ELSE IF df.raises THEN fail("get index data failed", got.disk, both)
            ELSE IF df.rows = <<>> THEN fail("index data empty", got.disk, calls1)
            ELSE IF "date" \notin df.cols THEN fail("no date column", got.disk, calls1)
            ELSE filtered(vr, got, InRange(df.rows, vr))
        \* after _validate_date_range
        ranged(vr) ==
            looked(vr, DataCache_get(d, symbol, vr[1], vr[2], TypeIndex, now, pv.getFault))
    IN  ranged(_validate_date_range(start_date0, end_date0, now))

\* FinancialDataService.get_financial_data on a fresh instance's realtime maps
get_financial_data(symbol, start_date, end_date, now, d, pv) ==
    LET symbol_type == _identify_symbol_type(symbol)
    IN  IF symbol_type = "stock" THEN get_stock_data(symbol, start_date, end_date, now, d, pv)
        ELSE IF symbol_type = "index"
        THEN get_index_data(symbol, start_date, end_date, now, d, <<>>, <<>>, pv)
        ELSE Ret(_create_empty_response(symbol, "unknown", "unrecognised code format", now),
                 d, <<>>)

(***************************************************************************)
(* K-line periods and FinancialDataService._get_minute_data                *)
(***************************************************************************)
P1min == Chars(<<"1","m","i","n">>)
P5min == Chars(<<"5","m","i","n">>)
P15min == Chars(<<"1","5","m","i","n">>)
P30min == Chars(<<"3","0","m","i","n">>)
P60min == Chars(<<"6","0","m","i","n">>)
PDaily == Chars(<<"d","a","i","l","y">>)
PWeekly == Chars(<<"w","e","e","k","l","y">>)
PMonthly == Chars(<<"m","o","n","t","h","l","y">>)
\* a period the code does not know
PYearly == Chars(<<"y","e","a","r","l","y">>)

MinutePeriods == {P1min, P5min, P15min, P30min, P60min}

\* the row after "df[col] = 0" for every required column the frame lacks
MinuteRow(r, cols) ==
    [date |-> IF "date" \in cols THEN r.date ELSE 0,
     open |-> IF "open" \in cols THEN r.open ELSE Num(0),
     close |-> IF "close" \in cols THEN r.close ELSE Num(0),
     high |-> IF "high" \in cols THEN r.high ELSE Num(0),
     low |-> IF "low" \in cols THEN r.low ELSE Num(0),
     volume |-> IF "volume" \in cols THEN r.volume ELSE Num(0)]

_get_minute_data(symbol, period, start_date, end_date, now, d, pv) ==
    LET calls == <<"stock_zh_a_hist_min_em">>
        df == pv.min
        fail(message, dd, cc) ==
            Ret(_create_empty_response(symbol, "stock", message, now), dd, cc)
        \* after self.cache.set
        stored(result, put) ==
            IF put.raised THEN fail("get minute data failed", put.disk, calls)
            ELSE Ret(result, put.disk, calls)
        \* after result was built
        built(got, result) ==
            stored(result,
                   DataCache_set(got.disk, symbol, start_date, end_date,
                                 TypeMinute(period), result, now, pv.setFault))
        \* after the loop that builds data_list
        listed(got, data_list) ==
            IF SummaryRaises(data_list) THEN fail("get minute data failed", got.disk, calls)
            ELSE built(got,
                       [success |-> TRUE, code |-> symbol, name |-> "stock_",
                        type |-> "stock",
                        currentPrice |-> data_list[Len(data_list)].close,
                        data |-> data_list, summary |-> Summary(data_list),
                        error |-> "", dataCount |-> Len(data_list),
                        lastUpdate |-> now, period |-> period])
        \* after self.cache.get
        looked(got) ==
            IF got.raised THEN fail("get minute data failed", got.disk, <<>>)
            ELSE IF got.hit THEN Ret(got.env, got.disk, <<>>)
            ELSE IF df.raises THEN fail("get minute data failed", got.disk, calls)
            ELSE IF df.rows = <<>> THEN fail("no minute data", got.disk, calls)
            ELSE listed(got,
                        BarsOf(sort_values([i \in DOMAIN df.rows |->
                                               MinuteRow(df.rows[i], df.cols)]),
                               TRUE))
    IN  looked(DataCache_get(d, symbol, start_date, end_date, TypeMinute(period),
                             now, pv.getFault))

(***************************************************************************)
(* _get_weekly_data and _get_monthly_data: resample('W') bins the days     *)
(* Monday..Sunday under the Sunday's date, resample('M') bins a calendar   *)
(* month under its last day; every bin from the first row's to the last    *)
(* row's is emitted, an empty one with NaN prices and volume 0.            *)
(***************************************************************************)
\* the last day of each month, January 2024 .. December 2026
MonthEnds ==
    <<30, 59, 90, 120, 151, 181, 212, 243, 273, 304, 334, 365,
      396, 424, 455, 485, 516, 546, 577, 608, 638, 669, 699, 730,
      761, 789, 820, 850, 881, 911, 942, 973, 1003, 1034, 1064, 1095>>

BinLabel(rule, day) ==
    IF rule = "W" THEN day + (6 - (day % 7))
    ELSE MonthEnds[CHOOSE i \in DOMAIN MonthEnds :
                      /\ day <= MonthEnds[i]
                      /\ (i = 1 \/ day > MonthEnds[i - 1])]

NextLabel(rule, label) ==
    IF rule = "W" THEN label + 7 ELSE BinLabel(rule, label + 1)

RECURSIVE BinLabels(_, _, _)
BinLabels(rule, label, last) ==
    IF label > last THEN <<>>
    ELSE <<label>> \o BinLabels(rule, NextLabel(rule, label), last)

\* agg({'open': 'first', 'close': 'last', 'high': 'max', 'low': 'min',
\*      'volume': 'sum'}) of one bin, then float(...) / int(...)
Aggregate(label, group) ==
    IF group = <<>>
    THEN [date |-> label, open |-> NaN, close |-> NaN, high |-> NaN, low |-> NaN,
          volume |-> 0]
    ELSE [date |-> label, open |-> group[1].open, close |-> group[Len(group)].close,
          high |-> PyMax(Highs(group)),
          low |-> PyMin([i \in DOMAIN group |-> group[i].low]),
          volume |-> SumVolume(group)]

resample(rule, bars) ==
    LET binned(sorted, labels) ==
            [i \in DOMAIN labels |->
                Aggregate(labels[i],
                          SelectSeq(sorted, LAMBDA b : BinLabel(rule, b.date) = labels[i]))]
        indexed(sorted) ==
            binned(sorted, BinLabels(rule, BinLabel(rule, sorted[1].date),
                                     BinLabel(rule, sorted[Len(sorted)].date)))
    IN  indexed(sort_values(bars))

\* a variant that keeps the daily envelope's dataCount
Resampled_dailyCount(period, symbol, now, daily, data_list) ==
    IF ~daily.env.success THEN daily
    ELSE IF SummaryRaises(data_list)
    THEN Ret(_create_empty_response(symbol, "unknown", "resample failed", now),
             daily.disk, daily.calls)
    ELSE Ret([daily.env EXCEPT !.currentPrice = data_list[Len(data_list)].close,
                               !.data = data_list, !.summary = Summary(data_list),
                               !.lastUpdate = now, !.period = period],
             daily.disk, daily.calls)

\* the envelope _get_weekly_data / _get_monthly_data builds from the daily
\* result and its resampled bars
Resampled(period, symbol, now, daily, data_list) ==
    IF ~daily.env.success THEN daily
    ELSE IF SummaryRaises(data_list)
    THEN Ret(_create_empty_response(symbol, "unknown", "resample failed", now),
             daily.disk, daily.calls)
    ELSE Ret([success |-> TRUE, code |-> symbol, name |-> daily.env.name,
              type |-> daily.env.type,
              currentPrice |-> data_list[Len(data_list)].close,
              data |-> data_list, summary |-> Summary(data_list),
              error |-> "", dataCount |-> Len(data_list),
              lastUpdate |-> now, period |-> period],
             daily.disk, daily.calls)

\* the common body of _get_weekly_data (rule "W") and _get_monthly_data ("M"),
\* given the daily result
ResampledOf(rule, period, symbol, now, daily) ==
    Resampled(period, symbol, now, daily, resample(rule, daily.env.data))

ResampledData(rule, period, symbol, start_date, end_date, now, d, pv) ==
    ResampledOf(rule, period, symbol, now,
                get_financial_data(symbol, start_date, end_date, now, d, pv))

_get_weekly_data(symbol, start_date, end_date, now, d, pv) ==
    ResampledData("W", PWeekly, symbol, start_date, end_date, now, d, pv)

_get_monthly_data(symbol, start_date, end_date, now, d, pv) ==
    ResampledData("M", PMonthly, symbol, start_date, end_date, now, d, pv)

(***************************************************************************)
(* FinancialDataService.get_kline_data                                     *)
(***************************************************************************)
\* the default date range of get_kline_data (lines 127-145)
KlineRange(period, start_date0, end_date0, now) ==
    LET defaultDays == IF period \in MinutePeriods THEN 1 ELSE 365
    IN  <<IF start_date0 = <<>>
          THEN strftime(now - defaultDays * DaySeconds) ELSE start_date0,
          IF start_date0 = <<>> \/ end_date0 = <<>> THEN strftime(now) ELSE end_date0>>

get_kline_data(symbol, period, start_date0, end_date0, now, d, pv) ==
    LET symbol_type == _identify_symbol_type(symbol)
        \* the branch of 'daily' and the final else branch, which read alike
        daily(start_date, end_date) ==
            IF symbol_type = "stock"
            THEN get_stock_data(symbol, start_date, end_date, now, d, pv)
            ELSE IF symbol_type = "index"
            THEN get_index_data(symbol, start_date, end_date, now, d, <<>>, <<>>, pv)
            ELSE RetNone(d, <<>>)
        dispatch(start_date, end_date) ==
            IF period \in MinutePeriods
            THEN _get_minute_data(symbol, period, start_date, end_date, now, d, pv)
            ELSE IF period = PWeekly
            THEN _get_weekly_data(symbol, start_date, end_date, now, d, pv)
            ELSE IF period = PMonthly
            THEN _get_monthly_data(symbol, start_date, end_date, now, d, pv)
            ELSE daily(start_date, end_date)
        ranged(range) == dispatch(range[1], range[2])
    IN  ranged(KlineRange(period, start_date0, end_date0, now))

(***************************************************************************)
(* Inputs.  The first invocation runs on Wednesday 2026-03-11 (day 800) at *)
(* 10:00; the horizon of a run is a few hours, so the day never changes.   *)
(***************************************************************************)
Today == 114 * 7 + 2

StartClock == Today * DaySeconds + TimeOfDay(10, 0)

D(day) == <<DateTok(day)>>

\* a past range, a range that ends today, and two empty arguments
PastRange == <<D(Today - 9), D(Today - 2)>>
TodayRange == <<D(Today - 2), D(Today)>>
EmptyRange == <<<<>>, <<>>>>

\* a provider frame: rows out of order, missing cells, a low of 0, a low
\* of 1.003, a high of 7.004, a week (the one that ends on day Today - 10)
\* without any row
TblGood ==
    Table(AllCols,
          <<Row(Today - 1, Num(5000), Num(6000), Num(7004), Num(4000), Num(30)),
            Row(Today - 22, Num(2000), Num(3000), Num(3000), Num(1003), Num(20)),
            Row(Today - 8, Num(3000), NaN, Num(4000), Num(2000), NaN),
            Row(Today - 3, Num(4000), Num(5000), Num(6000), Num(0), Num(10))>>)

\* every low is non-positive
TblNonPos ==
    Table(AllCols, <<Row(Today - 3, Num(1000), Num(1000), Num(1000), Num(0), Num(5))>>)

\* no close column; the only low is 0.004
TblNoClose ==
    Table(AllCols \ {"close"},
          <<Row(Today - 3, Num(4000), NaN, Num(6000), Num(4), Num(10))>>)

TblEmpty == Table(AllCols, <<>>)

SpotGood == SpotRow(Row(Today, Num(8000), Num(9000), Num(9000), Num(7000), Num(40)))

\* the answers and faults of one call: hist (stock_zh_a_hist), min
\* (stock_zh_a_hist_min_em), idx1 (stock_zh_index_daily), idx2
\* (index_zh_a_hist), spot1 (stock_zh_index_spot_em), spot2
\* (index_zh_a_spot_em), getFault and setFault (DataCache.get / .set)
Answer(t, t2, s1, s2, gf, sf) ==
    [hist |-> t, min |-> t, idx1 |-> t, idx2 |-> t2, spot1 |-> s1, spot2 |-> s2,
     getFault |-> gf, setFault |-> sf]

\* one frame for whichever history endpoint the call uses, no fault
PlainAnswers(tables) ==
    {Answer(t, Raises, SpotGood, SpotRaises, "none", "none") : t \in tables}

\* the fallbacks and the realtime outcomes
FallbackAnswers ==
    {Answer(Raises, TblGood, SpotGood, SpotRaises, "none", "none"),
     Answer(TblGood, Raises, SpotRaises, SpotGood, "none", "none"),
     Answer(TblGood, Raises, SpotRaises, SpotRaises, "none", "none"),
     Answer(TblGood, Raises, SpotEmpty, SpotRaises, "none", "none"),
     Answer(TblGood, Raises, SpotBad(SpotGood.row), SpotRaises, "none", "none")}

\* the file system faults
FaultAnswers ==
    {Answer(TblGood, Raises, SpotGood, SpotRaises, "io", "none"),
     Answer(TblGood, Raises, SpotGood, SpotRaises, "none", "open"),
     Answer(TblGood, Raises, SpotGood, SpotRaises, "none", "dump")}

TTL == CACHE_EXPIRE_HOURS * 3600

\* the universe of the facade's specification: the symbols, periods and
\* date arguments a caller passes, the provider's answers, and the time
\* that passes between two invocations
Wide ==
    [symbols |-> {Sym600000, Sym000001SH, SymABC123, Sym00Sup2345},
     periods |-> {P1min, P60min, PDaily, PWeekly, PMonthly, PYearly},
     dates |-> {PastRange, TodayRange, EmptyRange},
     answers |-> PlainAnswers({Raises, TblEmpty, TblNoClose, TblNonPos, TblGood})
                 \cup FallbackAnswers \cup FaultAnswers,
     elapsed |-> {0, TTL, TTL + 1}]

\* the queries a run repeats: one symbol with one pair of date arguments
Focus(U) == {[symbol |-> s, dates |-> d] : s \in U.symbols, d \in U.dates}

\* index answers only matter to a symbol of INDEX_CODE_MAPPING
AnswersFor(U, symbol) ==
    IF symbol \in INDEX_CODE_MAPPING THEN U.answers ELSE U.answers \ FallbackAnswers

(***************************************************************************)
(* data_service.main: one process per invocation, each with a new          *)
(* FinancialDataService.  out is what the process was given, found and     *)
(* printed; Exit is the process ending.  The first invocation of a run     *)
(* happens at StartClock.                                                  *)
(***************************************************************************)
MaxCalls == 2

NoAnswer == Answer(Raises, Raises, SpotRaises, SpotRaises, "none", "none")

\* the long-lived instances' maps, empty
NoMaps == [FDS |-> <<>>, RDS |-> <<>>]

Idle ==
    [phase |-> "idle", verb |-> "", symbol |-> <<>>, period |-> <<>>,
     start |-> <<>>, end |-> <<>>, at |-> 0, pv |-> NoAnswer,
     before |-> <<>>, none |-> FALSE, env |-> NoEnvelope, rt |-> NoRt,
     calls |-> <<>>, cls |-> "", raised |-> FALSE, exit |-> 0,
     rcBefore |-> <<>>, rlBefore |-> <<>>]

\* json.dumps(result) printed, exit status 0
Printed(verb, symbol, period, dates, now, pv, r) ==
    [phase |-> "done", verb |-> verb, symbol |-> symbol, period |-> period,
     start |-> dates[1], end |-> dates[2], at |-> now, pv |-> pv,
     before |-> disk, none |-> r.none, env |-> r.env, rt |-> NoRt,
     calls |-> r.calls, cls |-> "FDS", raised |-> FALSE, exit |-> 0,
     rcBefore |-> <<>>, rlBefore |-> <<>>]

\* the service's result r reaches the cache directory and standard output
Deliver(verb, period, now, pv, r) ==
    /\ disk' = r.disk
    /\ out' = Printed(verb, inp.symbol, period, inp.dates, now, pv, r)

Elapsed(U) == IF ncalls = 0 THEN {0} ELSE U.elapsed

\* main with action 'stock'
MainStock(U, chained) ==
    /\ ncalls < MaxCalls
    /\ chained \/ out.phase = "idle"
    /\ \E dt \in Elapsed(U), pv \in AnswersFor(U, inp.symbol) :
            /\ clock' = clock + dt
            /\ Deliver("stock", PDaily, clock + dt, pv,
                       get_financial_data(inp.symbol, inp.dates[1], inp.dates[2],
                                          clock + dt, disk, pv))
    /\ ncalls' = ncalls + 1
    /\ UNCHANGED <<svcCache, svcLast, inp>>

\* main with action 'kline'
MainKline(U, chained) ==
    /\ ncalls < MaxCalls
    /\ chained \/ out.phase = "idle"
    /\ \E dt \in Elapsed(U), period \in U.periods, pv \in AnswersFor(U, inp.symbol) :
            /\ clock' = clock + dt
            /\ Deliver("kline", period, clock + dt, pv,
                       get_kline_data(inp.symbol, period, inp.dates[1], inp.dates[2],
                                      clock + dt, disk, pv))
    /\ ncalls' = ncalls + 1
    /\ UNCHANGED <<svcCache, svcLast, inp>>

\* the process ends
Exit ==
    /\ out.phase = "done"
    /\ out' = Idle
    /\ UNCHANGED <<clock, disk, svcCache, svcLast, inp, ncalls>>

InitFacade(U) ==
    /\ clock = StartClock
    /\ disk = <<>>
    /\ svcCache = NoMaps
    /\ svcLast = NoMaps
    /\ inp \in Focus(U)
    /\ out = Idle
    /\ ncalls = 0

Init == InitFacade(Wide)

Next == MainStock(Wide, FALSE) \/ MainKline(Wide, FALSE) \/ Exit

Spec == Init /\ [][Next]_vars

(***************************************************************************)
(* A query repeated by successive invocations: out is the previous         *)
(* invocation when the next one starts.                                    *)
(***************************************************************************)
Narrow ==
    [symbols |-> {Sym600000, Sym000001SH},
     periods |-> {P1min, PDaily, PWeekly, PMonthly},
     dates |-> {PastRange, TodayRange},
     answers |-> PlainAnswers({Raises, TblGood}) \cup FaultAnswers,
     elapsed |-> {1, TTL, TTL + 1}]

InitRepeat == InitFacade(Narrow)

NextRepeat == MainStock(Narrow, TRUE) \/ MainKline(Narrow, TRUE)

SpecRepeat == InitRepeat /\ [][NextRepeat]_vars

(***************************************************************************)
(* The realtime operations of FinancialDataService (data_service.py) and   *)
(* RealtimeDataService (realtime_service.py).  rc and rl are the           *)
(* instance's two maps.  A realtime result has the fields of RtFailure;    *)
(* 'current' also stands for get_realtime_data's 'current_price'.          *)
(***************************************************************************)
KeyRealtime(symbol) == <<Ch("realtime_")>> \o symbol

KeyMarket == <<Ch("market_realtime")>>

\* FinancialDataService.get_realtime_data
FDS_get_realtime_data(symbol, now, rc, rl, pv) ==
    LET key == KeyRealtime(symbol)
        calls == <<"stock_zh_a_spot_em">>
        spot == pv.spotA
    IN  IF RtFresh(rc, rl, key, now) THEN RtRet(rc[key], rc, rl, <<>>)
        ELSE IF spot.raises
        THEN RtRet(RtFailure(symbol, "get realtime failed", now), rc, rl, calls)
        ELSE IF ~spot.found
        THEN RtRet(RtFailure(symbol, "realtime not found", now), rc, rl, calls)
        ELSE IF spot.bad
        THEN RtRet(RtFailure(symbol, "get realtime failed", now), rc, rl, calls)
        ELSE LET result == [RtIndexResult(symbol, spot.row, now) EXCEPT !.name = "quoted"]
             IN  RtRet(result, MapPut(rc, key, result), MapPut(rl, key, now), calls)

\* RealtimeDataService.get_index_realtime_data: its own INDEX_CODE_MAPPING,
\* and a third attempt that always ends in "raise"
RDS_get_index_realtime_data(symbol, now, rc, rl, pv) ==
    LET key == KeyIndexRealtime(symbol)
        first == <<"stock_zh_index_spot_em">>
        both == <<"stock_zh_index_spot_em", "index_zh_a_spot_em">>
        all == both \o <<"tool_trade_date_hist_sina">>
        calls == IF ~pv.spot1.raises THEN first
                 ELSE IF ~pv.spot2.raises THEN both ELSE all
        spot == IF pv.spot1.raises THEN pv.spot2 ELSE pv.spot1
    IN  IF RtFresh(rc, rl, key, now) THEN RtRet(rc[key], rc, rl, <<>>)
        ELSE IF symbol \notin RT_INDEX_CODE_MAPPING
        THEN RtRet(RtFailure(symbol, "unsupported index code", now), rc, rl, <<>>)
        ELSE IF spot.raises
        THEN RtRet(RtFailure(symbol, "get index realtime failed", now), rc, rl, calls)
        ELSE IF ~spot.found
        THEN RtRet(RtFailure(symbol, "index realtime not found", now), rc, rl, calls)
        ELSE IF spot.bad
        THEN RtRet(RtFailure(symbol, "get index realtime failed", now), rc, rl, calls)
        ELSE LET result == RtIndexResult(symbol, spot.row, now)
             IN  RtRet(result, MapPut(rc, key, result), MapPut(rl, key, now), calls)

\* the default of get_realtime_tick_data's count
TickCount == 50

\* a variant that takes the rows from the front: DataFrame.head(n)
head(rows, n) ==
    IF Len(rows) <= n THEN rows ELSE SubSeq(rows, 1, n)

\* DataFrame.tail(n), n >= 0
tail(rows, n) ==
    IF Len(rows) <= n THEN rows ELSE SubSeq(rows, Len(rows) - n + 1, Len(rows))

\* get_realtime_tick_data, the same text in both classes; it keeps no cache
get_realtime_tick_data(symbol, count, now, rc, rl, pv) ==
    LET calls == <<"stock_zh_a_minute">>
        df == pv.tick
        recent == tail(df.rows, count)
        tick_list == [i \in DOMAIN recent |->
                        [time |-> recent[i].date,
                         price |-> FloatOr0(recent[i].close),
                         volume |-> IF notna(recent[i].volume)
                                    THEN recent[i].volume.v ELSE 0]]
    IN  IF df.raises
        THEN RtRet(RtFailure(symbol, "tick data unavailable", now), rc, rl, calls)
        ELSE IF df.rows = <<>>
        THEN RtRet(RtFailure(symbol, "no tick data", now), rc, rl, calls)
        ELSE IF {"close", "volume"} \ df.cols # {}
        THEN RtRet(RtFailure(symbol, "tick data unavailable", now), rc, rl, calls)
        ELSE RtRet([RtFailure(symbol, "", now) EXCEPT !.success = TRUE,
                                                      !.data = tick_list,
                                                      !.count = Len(tick_list)],
                   rc, rl, calls)

\* the indices get_market_realtime asks for, one provider call each
MarketIndices == <<"sh000001", "sz399001", "sz399006">>

\* a variant that asks for the same index every time
MarketCall_same(i) == "stock_zh_index_spot_em:" \o MarketIndices[1]

MarketCall(i) == "stock_zh_index_spot_em:" \o MarketIndices[i]

\* a variant that stores the result without its timestamp
get_market_realtime_unstamped(now, rc, rl, pv) ==
    LET key == KeyMarket
        calls == [i \in DOMAIN MarketIndices |-> MarketCall(i)]
        result == [RtFailure(<<>>, "", now) EXCEPT !.success = TRUE,
                                                  !.market_status = _get_market_status(now)]
    IN  IF RtFresh(rc, rl, key, now) THEN RtRet(rc[key], rc, rl, <<>>)
        ELSE RtRet(result, MapPut(rc, key, result), rl, calls)

\* get_market_realtime, the same text in both classes: an index whose call
\* raises, or whose row float() rejects, is skipped ("continue")
get_market_realtime(now, rc, rl, pv) ==
    LET key == KeyMarket
        calls == [i \in DOMAIN MarketIndices |-> MarketCall(i)]
        got == SelectSeq([i \in DOMAIN MarketIndices |-> [i |-> i, spot |-> pv.mkt[i]]],
                         LAMBDA x : ~x.spot.raises /\ x.spot.found /\ ~x.spot.bad)
        market_data == [j \in DOMAIN got |->
                           [code |-> MarketIndices[got[j].i],
                            current |-> got[j].spot.row.close]]
        result == [RtFailure(<<>>, "", now) EXCEPT !.success = TRUE,
                                                  !.data = market_data,
                                                  !.market_status = _get_market_status(now)]
    IN  IF RtFresh(rc, rl, key, now) THEN RtRet(rc[key], rc, rl, <<>>)
        ELSE RtRet(result, MapPut(rc, key, result), MapPut(rl, key, now), calls)

\* the methods each class defines; a call of any other name raises
\* AttributeError
Methods(cls) ==
    IF cls = "FDS"
    THEN {"get_realtime_data", "get_index_realtime_data", "get_realtime_tick_data",
          "get_market_realtime"}
    ELSE {"get_index_realtime_data", "get_realtime_tick_data", "get_market_realtime"}

\* service.<method>(symbol) on an instance of class cls
Invoke(cls, method, symbol, now, rc, rl, pv) ==
    IF method = "get_realtime_data" THEN FDS_get_realtime_data(symbol, now, rc, rl, pv)
    ELSE IF method = "get_index_realtime_data"
    THEN IF cls = "FDS" THEN FDS_get_index_realtime_data(symbol, now, rc, rl, pv)
         ELSE RDS_get_index_realtime_data(symbol, now, rc, rl, pv)
    ELSE IF method = "get_realtime_tick_data"
    THEN get_realtime_tick_data(symbol, TickCount, now, rc, rl, pv)
    ELSE get_market_realtime(now, rc, rl, pv)

\* the answers of one realtime call: spotA (stock_zh_a_spot_em), tick
\* (stock_zh_a_minute), mkt (stock_zh_index_spot_em(symbol=...), one per index)
RtAnswer(s1, s2, sa, t, m) ==
    [hist |-> Raises, min |-> Raises, idx1 |-> Raises, idx2 |-> Raises,
     spot1 |-> s1, spot2 |-> s2, spotA |-> sa, tick |-> t, mkt |-> m,
     getFault |-> "none", setFault |-> "none"]

SpotAnswers == {SpotRaises, SpotEmpty, SpotGood, SpotBad(SpotGood.row)}

AllRaise == <<SpotRaises, SpotRaises, SpotRaises>>

RtAnswersFor(method) ==
    IF method \in {"get_index_realtime_data", "index_realtime"}
    THEN {RtAnswer(s1, SpotRaises, SpotRaises, Raises, AllRaise) : s1 \in SpotAnswers}
         \cup {RtAnswer(SpotRaises, SpotGood, SpotRaises, Raises, AllRaise)}
    ELSE IF method \in {"get_realtime_data", "realtime"}
    THEN {RtAnswer(SpotRaises, SpotRaises, sa, Raises, AllRaise) : sa \in SpotAnswers}
    ELSE IF method \in {"get_realtime_tick_data", "tick"}
    THEN {RtAnswer(SpotRaises, SpotRaises, SpotRaises, t, AllRaise)
            : t \in {Raises, TblEmpty, TblNoClose, TblGood}}
    ELSE {RtAnswer(SpotRaises, SpotRaises, SpotRaises, Raises, m)
            : m \in {AllRaise, <<SpotEmpty, SpotEmpty, SpotEmpty>>,
                     <<SpotGood, SpotRaises, SpotBad(SpotGood.row)>>,
                     <<SpotGood, SpotGood, SpotGood>>}}

\* what an invocation leaves in out; for a method call on a long-lived
\* instance, rcBefore and rlBefore are the instance's maps as the call began
RtPrinted(cls, verb, symbol, now, pv, r) ==
    [Idle EXCEPT !.phase = "done", !.verb = verb, !.symbol = symbol, !.at = now,
                 !.pv = pv, !.rt = r.res, !.calls = r.calls, !.cls = cls]

\* the interpreter's end on an uncaught exception: a traceback on stderr,
\* nothing on stdout, exit status 1
Uncaught(cls, verb, symbol, now, pv) ==
    [Idle EXCEPT !.phase = "done", !.verb = verb, !.symbol = symbol, !.at = now,
                 !.pv = pv, !.cls = cls, !.raised = TRUE, !.exit = 1]

\* the method realtime_service.main calls for each command-line method
MethodOf(verb) ==
    CASE verb = "realtime" -> "get_realtime_data"
      [] verb = "index_realtime" -> "get_index_realtime_data"
      [] verb = "tick" -> "get_realtime_tick_data"
      [] verb = "market" -> "get_market_realtime"

RtVerbs == {"realtime", "index_realtime", "tick", "market"}

RtElapsed == IF ncalls = 0 THEN {0} ELSE {0, CacheDuration - 1, CacheDuration}

\* realtime_service.main: one process, a new RealtimeDataService; symbol =
\* <<>> is the optional argument left out
RtMain ==
    /\ ncalls < MaxCalls
    /\ out.phase = "idle"
    /\ \E dt \in RtElapsed, verb \in RtVerbs, symbol \in {inp.symbol, <<>>} :
       \E pv \in RtAnswersFor(verb) :
            LET now == clock + dt
            IN  /\ clock' = now
                /\ out' = IF verb # "market" /\ symbol = <<>>
                          THEN RtPrinted("RDS", verb, symbol, now, pv,
                                         RtRet(RtFailure(<<>>, "symbol required", now),
                                               <<>>, <<>>, <<>>))
                          ELSE IF MethodOf(verb) \notin Methods("RDS")
                          THEN Uncaught("RDS", verb, symbol, now, pv)
                          ELSE RtPrinted("RDS", verb, symbol, now, pv,
                                         Invoke("RDS", MethodOf(verb), symbol, now,
                                                <<>>, <<>>, pv))
    /\ ncalls' = ncalls + 1
    /\ UNCHANGED <<disk, svcCache, svcLast, inp>>

\* the method's result r reaches the instance's maps and the caller
Returned(cls, method, now, pv, r) ==
    /\ svcCache' = [svcCache EXCEPT ![cls] = r.rc]
    /\ svcLast' = [svcLast EXCEPT ![cls] = r.rl]
    /\ out' = [RtPrinted(cls, method, inp.symbol, now, pv, r)
                 EXCEPT !.rcBefore = svcCache[cls], !.rlBefore = svcLast[cls]]

\* a method call on a long-lived instance of class cls
SvcCall(cls, method) ==
    /\ ncalls < MaxCalls
    /\ out.phase = "idle"
    /\ \E dt \in RtElapsed, pv \in RtAnswersFor(method) :
            /\ clock' = clock + dt
            /\ Returned(cls, method, clock + dt, pv,
                        Invoke(cls, method, inp.symbol, clock + dt,
                               svcCache[cls], svcLast[cls], pv))
    /\ ncalls' = ncalls + 1
    /\ UNCHANGED <<disk, inp>>

\* the universe of the command-line specification
Cli ==
    [symbols |-> {Sym600000, Sym000001SH, Sym000852SH, SymABC123},
     periods |-> {P1min, PDaily, PWeekly},
     dates |-> {PastRange, TodayRange},
     answers |-> PlainAnswers({Raises, TblGood}) \cup FallbackAnswers,
     elapsed |-> {0}]

InitRt == InitFacade(Cli)

NextRt ==
    \/ RtMain
    \/ \E cls \in {"FDS", "RDS"} : \E method \in Methods(cls) : SvcCall(cls, method)
    \/ MainStock(Cli, FALSE)
    \/ MainKline(Cli, FALSE)
    \/ Exit

SpecRt == InitRt /\ [][NextRt]_vars

(***************************************************************************)
(* _identify_symbol_type on its own: the symbol is drawn at the start,     *)
(* Identify classifies it and FetchSymbol hands it to get_financial_data.  *)
(***************************************************************************)
MaxSymLen == 7

PrefixChars == {"0", "1", "3", "6", "A", "sup2"}

TailChars == {"0", "A", "sup2"}

SymbolInputs ==
    INDEX_CODE_MAPPING \cup {Sym600000, SymABC123, Sym00Sup2345}
    \cup UNION {{Chars(p \o t) : p \in [1..2 -> PrefixChars], t \in [1..n -> TailChars]}
                : n \in 3..(MaxSymLen - 2)}

InitSym ==
    /\ clock = StartClock
    /\ disk = <<>>
    /\ svcCache = NoMaps
    /\ svcLast = NoMaps
    /\ inp \in SymbolInputs
    /\ out = Idle
    /\ ncalls = 0

Identify ==
    /\ out.phase = "idle"
    /\ out' = [Idle EXCEPT !.phase = "done", !.verb = "identify", !.symbol = inp,
                           !.at = clock,
                           !.env = [NoEnvelope EXCEPT !.type = _identify_symbol_type(inp)]]
    /\ UNCHANGED <<clock, disk, svcCache, svcLast, inp, ncalls>>

DeliverSym(pv, r) ==
    /\ disk' = r.disk
    /\ out' = Printed("stock", inp, PDaily, PastRange, clock, pv, r)

FetchSymbol ==
    /\ out.phase = "idle"
    /\ \E pv \in PlainAnswers({Raises, TblGood}) :
         DeliverSym(pv, get_financial_data(inp, PastRange[1], PastRange[2], clock,
                                           disk, pv))
    /\ UNCHANGED <<clock, svcCache, svcLast, inp, ncalls>>

NextSym == Identify \/ FetchSymbol

SpecSym == InitSym /\ [][NextSym]_vars

(***************************************************************************)
(* _validate_date_range on its own: the two arguments and the time of day  *)
(* are drawn at the start, Validate applies the function.                  *)
(***************************************************************************)
FutureDays == 2

BoundarySlack == 2

DayInputs ==
    ((Today - MaxRangeDays - BoundarySlack)..(Today - MaxRangeDays + BoundarySlack))
    \cup ((Today - 1)..(Today + FutureDays))

\* text that is no date
NotADate == Chars(<<"b","a","d">>)

DateInputs ==
    {<<>>, NotADate} \cup {D(d) : d \in DayInputs} \cup {<<UDateTok(d)>> : d \in DayInputs}

InitDates ==
    /\ clock \in {Today * DaySeconds, StartClock}
    /\ disk = <<>>
    /\ svcCache = NoMaps
    /\ svcLast = NoMaps
    /\ inp \in DateInputs \X DateInputs
    /\ out = Idle
    /\ ncalls = 0

Validate ==
    /\ out.phase = "idle"
    /\ LET vr == _validate_date_range(inp[1], inp[2], clock)
       IN  out' = [Idle EXCEPT !.phase = "done", !.verb = "validate", !.at = clock,
                               !.start = vr[1], !.end = vr[2]]
    /\ UNCHANGED <<clock, disk, svcCache, svcLast, inp, ncalls>>

\* the historical stock query with the two arguments: its result reaches
\* the cache directory and standard output
DeliverDates(pv, r) ==
    /\ disk' = r.disk
    /\ out' = Printed("stock", Sym600000, PDaily, inp, clock, pv, r)

FetchDates ==
    /\ out.phase = "idle"
    /\ \E pv \in PlainAnswers({Raises, TblGood}) :
         DeliverDates(pv, get_stock_data(Sym600000, inp[1], inp[2], clock, disk, pv))
    /\ UNCHANGED <<clock, svcCache, svcLast, inp, ncalls>>

NextDates == Validate \/ FetchDates

SpecDates == InitDates /\ [][NextDates]_vars

(***************************************************************************)
(* _normalize_data_format on its own: the frame (its columns after the     *)
(* rename, its rows), the symbol and the type tag are drawn at the start,  *)
(* Normalize applies the function.                                         *)
(***************************************************************************)
\* rows out of order and with missing cells, a single row, rows without a
\* positive low, no row
NormRows == {TblGood.rows, TblNoClose.rows, TblNonPos.rows, <<>>}

NormInputs ==
    {[df |-> Table(cols, rows), symbol |-> symbol, type |-> type] :
        cols \in SUBSET AllCols, rows \in NormRows,
        symbol \in {Sym600000, Sym000001SH}, type \in {"stock", "index"}}

InitNorm ==
    /\ clock = StartClock
    /\ disk = <<>>
    /\ svcCache = NoMaps
    /\ svcLast = NoMaps
    /\ inp \in NormInputs
    /\ out = Idle
    /\ ncalls = 0

Normalize ==
    /\ out.phase = "idle"
    /\ out' = [Idle EXCEPT !.phase = "done", !.verb = "normalize",
                           !.symbol = inp.symbol, !.at = clock,
                           !.env = _normalize_data_format(inp.df, inp.symbol,
                                                          inp.type, clock)]
    /\ UNCHANGED <<clock, disk, svcCache, svcLast, inp, ncalls>>

NextNorm == Normalize

SpecNorm == InitNorm /\ [][NextNorm]_vars

(***************************************************************************)
(* DataCache.set and DataCache.get of one key by parallel processes.  set  *)
(* is open(cache_file, 'w'), which truncates the file, followed by         *)
(* json.dump, whose text reaches the file in one write per buffer-full,    *)
(* each at the writing process's own offset, the last one at close; there  *)
(* is no lock and no rename.  Here disk is that one file, [exists, text],  *)
(* text a sequence of buffer-sized chunks: [w, i] is chunk i of writer w's *)
(* JSON text, [0, 0] a hole.  inp[w] is the number of chunks of writer w's *)
(* text; out.pos[w] is writer w's position: 0 before open, i when chunk i  *)
(* is the next to be written, inp[w] + 1 after close; out.got is what the  *)
(* reader's last DataCache.get returned.                                   *)
(***************************************************************************)
MaxChunks == 2

Writers == {1, 2}

Hole == [w |-> 0, i |-> 0]

\* the JSON text of writer w's envelope
TextOf(w, size) == [i \in 1..size |-> [w |-> w, i |-> i]]

\* file.write at offset i - 1 of a file whose text is text
WriteAt(text, i, chunk) ==
    [j \in 1..(IF Len(text) > i THEN Len(text) ELSE i) |->
        IF j = i THEN chunk ELSE IF j <= Len(text) THEN text[j] ELSE Hole]

InitRace ==
    /\ clock = StartClock
    /\ disk = [exists |-> FALSE, text |-> <<>>]
    /\ svcCache = NoMaps
    /\ svcLast = NoMaps
    /\ inp \in [Writers -> 1..MaxChunks]
    /\ out = [phase |-> "race", pos |-> [w \in Writers |-> 0], got |-> "nothing"]
    /\ ncalls = 0

\* open(cache_file, 'w')
SetOpen(w) ==
    /\ out.pos[w] = 0
    /\ disk' = [exists |-> TRUE, text |-> <<>>]
    /\ out' = [out EXCEPT !.pos[w] = 1]
    /\ UNCHANGED <<clock, svcCache, svcLast, inp, ncalls>>

\* json.dump: the next buffer-full; the last one is written at close
SetWrite(w) ==
    /\ out.pos[w] \in 1..inp[w]
    /\ disk' = [disk EXCEPT !.text = WriteAt(disk.text, out.pos[w],
                                             [w |-> w, i |-> out.pos[w]])]
    /\ out' = [out EXCEPT !.pos[w] = out.pos[w] + 1]
    /\ UNCHANGED <<clock, svcCache, svcLast, inp, ncalls>>

\* the text is the whole text of one writer
WholeTextOf(text, w) == text = TextOf(w, inp[w])

\* the text has the length of a writer's text and no hole, but chunks of
\* both, and does not begin with a whole text (json.load raises "Extra data"
\* on a document that is followed by more text)
MixedText(text) ==
    /\ \E w \in Writers : Len(text) = inp[w]
    /\ \A j \in DOMAIN text : text[j] # Hole /\ text[j].i = j
    /\ \A w \in Writers :
          ~(Len(text) >= inp[w] /\ SubSeq(text, 1, inp[w]) = TextOf(w, inp[w]))

\* what DataCache.get returns for the file: None when it does not exist or
\* json.load raises, the envelope of a writer when the text is that
\* writer's; for a text pieced together from both writers json.load raises
\* or returns a dictionary, depending on where the chunks meet
GetOutcomes(file) ==
    IF ~file.exists THEN {"absent"}
    ELSE IF \E w \in Writers : WholeTextOf(file.text, w)
    THEN {IF WholeTextOf(file.text, 1) THEN "envelope 1" ELSE "envelope 2"}
    ELSE IF MixedText(file.text) THEN {"absent", "mixture"}
    ELSE {"absent"}

\* a reader's DataCache.get, at any moment
RaceGet ==
    /\ \E got \in GetOutcomes(disk) : out' = [out EXCEPT !.got = got]
    /\ UNCHANGED <<clock, disk, svcCache, svcLast, inp, ncalls>>

NextRace == (\E w \in Writers : SetOpen(w) \/ SetWrite(w)) \/ RaceGet

SpecRace == InitRace /\ [][NextRace]_vars

(***************************************************************************)
(* DataCache.get of one key step by step, while another process runs       *)
(* DataCache.set for the same key.  disk is the directory entry of the     *)
(* key's file, [exists, mtime, text]; inp.age is the age of the file as    *)
(* the race begins (-1: no file), inp.chunks the number of chunks of the   *)
(* writer's text.  out.rd is the reader's position (start, exists, stale,  *)
(* fresh, done), out.seen the mtime it read, out.got what its get          *)
(* returned; out.wr is the writer's position as in the race above;         *)
(* out.unlinked says that the file the writer holds open has been removed  *)
(* from the directory, so that its writes reach no name.  The race is over *)
(* within the second: the clock stands still.                              *)
(***************************************************************************)
Writer == 1

FileAges == {-1, 0, CACHE_EXPIRE_HOURS * 3600, CACHE_EXPIRE_HOURS * 3600 + 1}

NoFile == [exists |-> FALSE, mtime |-> 0, text |-> <<>>]

InitExpire ==
    /\ clock = StartClock
    /\ inp \in [age : FileAges, chunks : 1..MaxChunks]
    /\ disk = IF inp.age < 0 THEN NoFile
              ELSE [exists |-> TRUE, mtime |-> clock - inp.age, text |-> <<Hole>>]
    /\ svcCache = NoMaps
    /\ svcLast = NoMaps
    /\ out = [phase |-> "expire", rd |-> "start", seen |-> 0, got |-> "nothing",
              wr |-> 0, unlinked |-> FALSE]
    /\ ncalls = 0

\* if not os.path.exists(cache_file): return None
LookupExists ==
    /\ out.rd = "start"
    /\ out' = IF disk.exists THEN [out EXCEPT !.rd = "exists"]
              ELSE [out EXCEPT !.rd = "done", !.got = "absent"]
    /\ UNCHANGED <<clock, disk, svcCache, svcLast, inp, ncalls>>

\* file_time = os.path.getmtime(cache_file) and the comparison with the
\* current time; a file that is gone raises, which get turns into None
LookupStat ==
    /\ out.rd = "exists"
    /\ out' = IF ~disk.exists THEN [out EXCEPT !.rd = "done", !.got = "absent"]
              ELSE IF clock - disk.mtime > CACHE_EXPIRE_HOURS * 3600
              THEN [out EXCEPT !.rd = "stale", !.seen = disk.mtime]
              ELSE [out EXCEPT !.rd = "fresh", !.seen = disk.mtime]
    /\ UNCHANGED <<clock, disk, svcCache, svcLast, inp, ncalls>>

\* os.remove(cache_file); return None
LookupRemove ==
    /\ out.rd = "stale"
    /\ disk' = NoFile
    /\ out' = [out EXCEPT !.rd = "done", !.got = "absent",
                          !.unlinked = (disk.exists /\ out.wr \in 1..inp.chunks)
                                       \/ out.unlinked]
    /\ UNCHANGED <<clock, svcCache, svcLast, inp, ncalls>>

\* open(cache_file, 'r') and json.load: the envelope when the text is the
\* writer's whole text, otherwise an exception, which get turns into None
LookupLoad ==
    /\ out.rd = "fresh"
    /\ out' = [out EXCEPT !.rd = "done",
                          !.got = IF disk.exists /\ disk.text = TextOf(Writer, inp.chunks)
                                  THEN "envelope 1" ELSE "absent"]
    /\ UNCHANGED <<clock, disk, svcCache, svcLast, inp, ncalls>>

\* open(cache_file, 'w'): creates or truncates the file
StoreOpen ==
    /\ out.wr = 0
    /\ disk' = [exists |-> TRUE, mtime |-> clock, text |-> <<>>]
    /\ out' = [out EXCEPT !.wr = 1]
    /\ UNCHANGED <<clock, svcCache, svcLast, inp, ncalls>>

\* json.dump: the next buffer-full, the last one at close
StoreWrite ==
    /\ out.wr \in 1..inp.chunks
    /\ disk' = IF out.unlinked THEN disk
               ELSE [disk EXCEPT !.mtime = clock,
                                 !.text = WriteAt(disk.text, out.wr,
                                                  [w |-> Writer, i |-> out.wr])]
    /\ out' = [out EXCEPT !.wr = out.wr + 1]
    /\ UNCHANGED <<clock, svcCache, svcLast, inp, ncalls>>

NextExpire ==
    \/ LookupExists
    \/ LookupStat
    \/ LookupRemove
    \/ LookupLoad
    \/ StoreOpen
    \/ StoreWrite

SpecExpire == InitExpire /\ [][NextExpire]_vars

(***************************************************************************)
(* get_realtime_tick_data on its own: the provider's minute table and the  *)
(* count argument are drawn at the start, Tick(cls) calls the method of    *)
(* class cls.                                                              *)
(***************************************************************************)
MaxCount == 3

MaxTicks == 5

\* the provider's first n minute rows, oldest first; date is the row's
\* label, every third close and every third volume is missing
TickRows(n) ==
    [i \in 1..n |->
        Row(i, Num(5000 + 10 * i), IF i % 3 = 2 THEN NaN ELSE Num(5010 + 10 * i),
            Num(5020 + 10 * i), Num(4990 + 10 * i),
            IF i % 3 = 0 THEN NaN ELSE Num(10 * i))]

\* the call raises, the table is empty, lacks the close column, or holds
\* 1..MaxTicks rows
TickTables ==
    {Raises, Table(AllCols \ {"close"}, TickRows(2))}
    \cup {Table(AllCols, TickRows(n)) : n \in 0..MaxTicks}

\* a number of rows a caller asks for, and the default
CountInputs == (0..MaxCount) \cup {TickCount}

InitTick ==
    /\ clock = StartClock
    /\ disk = <<>>
    /\ svcCache = NoMaps
    /\ svcLast = NoMaps
    /\ inp \in [count : CountInputs, tick : TickTables]
    /\ out = Idle
    /\ ncalls = 0

TickReturned(cls, pv, r) ==
    out' = RtPrinted(cls, "get_realtime_tick_data", Sym600000, clock, pv, r)

Tick(cls) ==
    /\ out.phase = "idle"
    /\ \E pv \in {RtAnswer(SpotRaises, SpotRaises, SpotRaises, inp.tick, AllRaise)} :
         TickReturned(cls, pv,
                      get_realtime_tick_data(Sym600000, inp.count, clock,
                                             svcCache[cls], svcLast[cls], pv))
    /\ UNCHANGED <<clock, disk, svcCache, svcLast, inp, ncalls>>

NextTick == \E cls \in {"FDS", "RDS"} : Tick(cls)

SpecTick == InitTick /\ [][NextTick]_vars

(***************************************************************************)
(* DataCache.set and DataCache.get of two key tuples, as _get_minute_data  *)
(* calls them: symbol, start_date and end_date are the caller's text as    *)
(* given (get_kline_data hands them on unchecked), data_type is            *)
(* 'minute_<period>'.  inp[1] and inp[2] are the tuples; CacheSet(i)       *)
(* stores the envelope of tuple i, CacheGet(i) looks tuple i up.           *)
(***************************************************************************)
MaxOps == 2

\* text a caller can pass for a symbol or a date: single characters and
\* two of them around an underscore
KeySymbols == {Chars(<<"6">>), Chars(<<"6", "_", "a">>)}

KeyStarts == {Chars(<<"b">>), Chars(<<"a", "_", "b">>)}

KeyEnds == {Chars(<<"c">>)}

KeyTuples ==
    [symbol : KeySymbols, start : KeyStarts, end : KeyEnds,
     type : {TypeMinute(P1min), TypeMinute(P5min)}]

\* the successful envelope _get_minute_data builds for tuple t
EnvelopeOf(t, now) ==
    [success |-> TRUE, code |-> t.symbol, name |-> "stock_", type |-> "stock",
     currentPrice |-> Num(5000), data |-> <<>>, summary |-> ZeroSummary,
     error |-> "", dataCount |-> 0, lastUpdate |-> now, period |-> P1min]

InitKey ==
    /\ clock = StartClock
    /\ disk = <<>>
    /\ svcCache = NoMaps
    /\ svcLast = NoMaps
    /\ inp \in KeyTuples \X KeyTuples
    /\ out = [phase |-> "key", op |-> "none", i |-> 0, hit |-> FALSE, env |-> NoEnvelope]
    /\ ncalls = 0

KeyElapsed == {0, CACHE_EXPIRE_HOURS * 3600, CACHE_EXPIRE_HOURS * 3600 + 1}

CacheSet(i) ==
    /\ ncalls < MaxOps
    /\ \E dt \in KeyElapsed :
         /\ clock' = clock + dt
         /\ disk' = DataCache_set(disk, inp[i].symbol, inp[i].start, inp[i].end,
                                  inp[i].type, EnvelopeOf(inp[i], clock + dt),
                                  clock + dt, "none").disk
         /\ out' = [phase |-> "key", op |-> "set", i |-> i, hit |-> FALSE,
                    env |-> EnvelopeOf(inp[i], clock + dt)]
    /\ ncalls' = ncalls + 1
    /\ UNCHANGED <<svcCache, svcLast, inp>>

\* the lookup's result got reaches the directory and the caller
Looked(i, got) ==
    /\ disk' = got.disk
    /\ out' = [phase |-> "key", op |-> "get", i |-> i, hit |-> got.hit, env |-> got.env]

CacheGet(i) ==
    /\ ncalls < MaxOps
    /\ \E dt \in KeyElapsed :
         /\ clock' = clock + dt
         /\ Looked(i, DataCache_get(disk, inp[i].symbol, inp[i].start, inp[i].end,
                                    inp[i].type, clock + dt, "none"))
    /\ ncalls' = ncalls + 1
    /\ UNCHANGED <<svcCache, svcLast, inp>>

NextKey == \E i \in {1, 2} : CacheSet(i) \/ CacheGet(i)

SpecKey == InitKey /\ [][NextKey]_vars

(***************************************************************************)
(* One FinancialDataService and one RealtimeDataService side by side: both *)
(* start with empty maps and each call of get_index_realtime_data is made  *)
(* on both, with the same symbol, at the same time and with the same       *)
(* provider responses.  out.fds and out.rds are the two return values.     *)
(***************************************************************************)
MaxPairCalls == 2

\* the symbols either module lists
EitherMapping == INDEX_CODE_MAPPING \cup RT_INDEX_CODE_MAPPING

InitPair ==
    /\ clock = StartClock
    /\ disk = <<>>
    /\ svcCache = NoMaps
    /\ svcLast = NoMaps
    /\ inp \in EitherMapping
    /\ out = [phase |-> "pair", symbol |-> <<>>, at |-> 0, fds |-> NoRt, rds |-> NoRt,
              callsF |-> <<>>, callsR |-> <<>>]
    /\ ncalls = 0

\* the two results reach the two instances' maps and the caller
PairReturned(symbol, now, f, r) ==
    /\ svcCache' = [FDS |-> f.rc, RDS |-> r.rc]
    /\ svcLast' = [FDS |-> f.rl, RDS |-> r.rl]
    /\ out' = [phase |-> "pair", symbol |-> symbol, at |-> now, fds |-> f.res,
               rds |-> r.res, callsF |-> f.calls, callsR |-> r.calls]

\* the same call on both instances; the first call is for inp
CallBoth ==
    /\ ncalls < MaxPairCalls
    /\ \E symbol \in (IF ncalls = 0 THEN {inp} ELSE EitherMapping),
          dt \in RtElapsed, pv \in RtAnswersFor("get_index_realtime_data") :
            /\ clock' = clock + dt
            /\ PairReturned(symbol, clock + dt,
                            FDS_get_index_realtime_data(symbol, clock + dt, svcCache.FDS,
                                                        svcLast.FDS, pv),
                            RDS_get_index_realtime_data(symbol, clock + dt, svcCache.RDS,
                                                        svcLast.RDS, pv))
    /\ ncalls' = ncalls + 1
    /\ UNCHANGED <<disk, inp>>

NextPair == CallBoth

SpecPair == InitPair /\ [][NextPair]_vars

(***************************************************************************)
(* Properties                                                              *)
(***************************************************************************)
\* the current date
TodayOf(now) == now \div DaySeconds

\* a decimal digit, as in STOCK_CODE_PATTERNS' [0-9]
IsSixDigitAShare(symbol) ==
    /\ Len(symbol) = 6
    /\ \A i \in 1..6 : symbol[i].k = "ch" /\ symbol[i].c \in AsciiDigits
    /\ \E p \in {<<"0","0">>, <<"3","0">>, <<"6","0">>} : startswith2(symbol, p)

\* the class the specification gives a symbol
ClassOf(symbol) ==
    IF symbol \in INDEX_CODE_MAPPING THEN "index"
    ELSE IF IsSixDigitAShare(symbol) THEN "stock" ELSE "unknown"

HistoricalVerbs == {"stock", "kline"}

Resampling == {PWeekly, PMonthly}

\* a historical invocation has ended
Answered == out.phase = "done" /\ out.verb \in HistoricalVerbs

\* the cache entry invocation o reads and writes: the arguments of
\* self.cache.get / self.cache.set on o's path
QueryParts(o) ==
    LET raw == IF o.verb = "kline" THEN KlineRange(o.period, o.start, o.end, o.at)
               ELSE <<o.start, o.end>>
        vr == _validate_date_range(raw[1], raw[2], o.at)
    IN  IF o.verb = "kline" /\ o.period \in MinutePeriods
        THEN [symbol |-> o.symbol, start |-> raw[1], end |-> raw[2],
              type |-> TypeMinute(o.period)]
        ELSE [symbol |-> o.symbol, start |-> vr[1], end |-> vr[2],
              type |-> IF _identify_symbol_type(o.symbol) = "index"
                       THEN TypeIndex ELSE TypeStock]

QueryKey(o) ==
    _get_cache_key(QueryParts(o).symbol, QueryParts(o).start, QueryParts(o).end,
                   QueryParts(o).type)

\* the number of seconds since the entry of o's query was written, as o found it
AgeFor(o) == o.at - o.before[QueryKey(o)].mtime

\* invocation o once more: same arguments, same time, on the cache
\* directory d and with the answers and faults pv
Replay(o, d, pv) ==
    IF o.verb = "stock" THEN get_financial_data(o.symbol, o.start, o.end, o.at, d, pv)
    ELSE get_kline_data(o.symbol, o.period, o.start, o.end, o.at, d, pv)

Without(d, f) == [g \in DOMAIN d \ {f} |-> d[g]]

\* C1: for a symbol that is neither a key of INDEX_CODE_MAPPING nor six
\* decimal digits starting with 00, 30 or 60, the stock verb and the kline
\* verb with every period return an envelope with success = false and
\* type = "unknown".
C1_UnsupportedIsUnknown ==
    (Answered /\ ClassOf(out.symbol) = "unknown") =>
        /\ ~out.none
        /\ ~out.env.success
        /\ out.env.type = "unknown"

\* two invocations ask for the same symbol, dates and period
SameQuery(o1, o2) ==
    /\ o1.symbol = o2.symbol
    /\ o1.start = o2.start
    /\ o1.end = o2.end
    /\ o1.period = o2.period

\* out' repeats, at most TTL seconds later, the query that out answered with success
RepeatedWithinTTL ==
    /\ out.phase = "done"
    /\ out'.phase = "done"
    /\ out.verb \in HistoricalVerbs
    /\ out'.verb \in HistoricalVerbs
    /\ SameQuery(out, out')
    /\ ~out.none
    /\ out.env.success
    /\ out'.at - out.at <= TTL

\* C2, as the claim states it: a historical query that succeeded and is
\* repeated within the hour returns output identical to the first and
\* makes no provider call.
C2_RepeatIsIdentical ==
    [][RepeatedWithinTTL => (out'.env = out.env /\ out'.calls = <<>>)]_vars

\* the entry of o's query is on disk as o starts, readable and at most TTL old
EntryFresh(o) ==
    /\ QueryKey(o) \in DOMAIN o.before
    /\ o.before[QueryKey(o)].ok
    /\ AgeFor(o) <= TTL

NoFault(o) == o.pv.getFault = "none" /\ o.pv.setFault = "none"

\* C2, amended: when a successful historical query is repeated and neither
\* invocation meets a cache fault, then if the query's cache entry is at
\* most 3600 seconds old at the second invocation, the second makes no
\* provider call and returns the first's envelope (for weekly and monthly:
\* the first's envelope with lastUpdate set to the time of the second);
\* otherwise (the entry has expired, or the query is an index query that
\* ends today and is never cached) the second calls the provider again.
C2_RepeatServedWhileFresh ==
    [][(RepeatedWithinTTL /\ NoFault(out) /\ NoFault(out')) =>
          IF EntryFresh(out')
          THEN /\ out'.calls = <<>>
               /\ out'.env = IF out'.period \in Resampling
                             THEN [out.env EXCEPT !.lastUpdate = out'.at]
                             ELSE out.env
          ELSE out'.calls # <<>>]_vars

\* a weekly query answered from the cache on its repetition
C2_Witness ==
    /\ Answered
    /\ ncalls = 2
    /\ out.period = PWeekly
    /\ out.env.success
    /\ out.calls = <<>>
    /\ out.env.lastUpdate > StartClock

\* C3: when the cache file of a query is older than 3600 seconds, the
\* lookup deletes it and returns absent, the provider is called again, and
\* a fresh successful result is written back; a file at most 3600 seconds
\* old is served without deletion and without a provider call.
C3_ExpiredIsRefetched ==
    (Answered /\ out.pv.getFault = "none" /\ QueryKey(out) \in DOMAIN out.before) =>
        IF AgeFor(out) > TTL
        THEN /\ out.calls # <<>>
             /\ QueryKey(out) \in DOMAIN disk => disk[QueryKey(out)].mtime = out.at
             /\ (out.env.success /\ out.pv.setFault = "none") =>
                    /\ QueryKey(out) \in DOMAIN disk
                    /\ disk[QueryKey(out)].ok
                    /\ disk[QueryKey(out)].mtime = out.at
                    /\ disk[QueryKey(out)].env.success
                    /\ out.period \notin Resampling => disk[QueryKey(out)].env = out.env
        ELSE out.before[QueryKey(out)].ok =>
                /\ out.calls = <<>>
                /\ disk = out.before
                /\ out.period \notin Resampling => out.env = out.before[QueryKey(out)].env

\* an expired entry was replaced by the fresh result
C3_Witness ==
    /\ Answered
    /\ QueryKey(out) \in DOMAIN out.before
    /\ AgeFor(out) > TTL
    /\ out.env.success
    /\ QueryKey(out) \in DOMAIN disk
    /\ disk[QueryKey(out)].mtime = out.at
    /\ disk[QueryKey(out)].env = out.env

\* C4: every envelope the historical operations return, fresh, error or
\* read back from the cache, and every envelope stored in the cache, has
\* dataCount = len(data).
C4_DataCountIsLen ==
    /\ (Answered /\ ~out.none) => out.env.dataCount = Len(out.env.data)
    /\ \A f \in DOMAIN disk :
          disk[f].ok => disk[f].env.dataCount = Len(disk[f].env.data)

\* a monthly envelope built from a cached daily envelope with more bars
C4_Witness ==
    /\ Answered
    /\ out.period = PMonthly
    /\ out.env.success
    /\ out.calls = <<>>
    /\ QueryKey(out) \in DOMAIN disk
    /\ disk[QueryKey(out)].ok
    /\ Len(out.env.data) < Len(disk[QueryKey(out)].env.data)

\* C5: every historical envelope with success = false has data = [],
\* dataCount = 0 and currentPrice = 0.
C5_FailureIsEmpty ==
    (Answered /\ ~out.none /\ ~out.env.success) =>
        /\ out.env.data = <<>>
        /\ out.env.dataCount = 0
        /\ out.env.currentPrice = Num(0)

\* the provider's rows could not be summarised: no low is positive
C5_Witness ==
    /\ Answered
    /\ ~out.none
    /\ ~out.env.success
    /\ out.calls # <<>>
    /\ ~out.pv.hist.raises
    /\ out.pv.hist.rows # <<>>
    /\ RequiredColumns \subseteq out.pv.hist.cols
    /\ out.period = PDaily

\* C6: for every pair of input dates, the pair _validate_date_range returns
\* spans at most 730 days and neither of its dates is later than the
\* current date.
C6_RangeClamped ==
    (out.phase = "done" /\ out.verb = "validate") =>
        /\ DayOf(out.end) - DayOf(out.start) <= MaxRangeDays
        /\ DayOf(out.start) <= TodayOf(out.at)
        /\ DayOf(out.end) <= TodayOf(out.at)

\* C7: _identify_symbol_type answers 'index' exactly for the keys of
\* INDEX_CODE_MAPPING, 'stock' exactly for the other symbols of six decimal
\* digits that start with 00, 30 or 60, and 'unknown' otherwise; a symbol
\* that is unknown gets the empty-response envelope from
\* get_financial_data without any provider call.
C7_Classification ==
    /\ (out.phase = "done" /\ out.verb = "identify") =>
            out.env.type = ClassOf(out.symbol)
    /\ (out.phase = "done" /\ out.verb = "stock" /\ ClassOf(out.symbol) = "unknown") =>
            /\ ~out.env.success
            /\ out.env.type = "unknown"
            /\ out.env.data = <<>>
            /\ out.calls = <<>>

CliVerbs == HistoricalVerbs \cup RtVerbs

\* C8: every command-line verb, with well-formed arguments and for every
\* provider outcome, ends by printing one JSON object that carries a
\* success field, and exits 0; no failure leaves main.
C8_AlwaysPrintsEnvelope ==
    (out.phase = "done" /\ out.verb \in CliVerbs) =>
        /\ ~out.raised
        /\ out.exit = 0
        /\ ~out.none

\* the answer pv holds for the provider call named call
FailedTable(t, needed) == t.raises \/ t.rows = <<>> \/ needed \ t.cols # {}

FailedSpot(sp) == sp.raises \/ ~sp.found \/ sp.bad

\* the provider call raised, or returned an empty or malformed result
CallFailed(pv, call) ==
    CASE call = "stock_zh_a_hist" -> FailedTable(pv.hist, RequiredColumns)
      [] call = "stock_zh_a_hist_min_em" -> FailedTable(pv.min, {})
      [] call = "stock_zh_index_daily" -> FailedTable(pv.idx1, RequiredColumns)
      [] call = "index_zh_a_hist" -> FailedTable(pv.idx2, RequiredColumns)
      [] call = "stock_zh_index_spot_em" -> FailedSpot(pv.spot1)
      [] call = "index_zh_a_spot_em" -> FailedSpot(pv.spot2)
      [] call = "stock_zh_a_spot_em" -> FailedSpot(pv.spotA)
      [] call = "stock_zh_a_minute" -> FailedTable(pv.tick, {"close", "volume"})
      [] call = "tool_trade_date_hist_sina" -> TRUE
      [] OTHER -> \E i \in DOMAIN MarketIndices :
                    call = MarketCall(i) /\ FailedSpot(pv.mkt[i])

\* C9: when the provider calls an operation issues raise or return an empty
\* or malformed result, the operation returns an envelope with success =
\* false and a non-empty error message; for the historical operations and
\* for get_realtime_data, get_index_realtime_data, get_realtime_tick_data
\* and get_market_realtime, also when every index fetch of
\* get_market_realtime fails.  (Stated for the case that none of the calls
\* the operation issued gave a usable answer, so that a fallback that
\* succeeds does not count against the claim.)
C9_ProviderFailureIsFailure ==
    (/\ out.phase = "done"
     /\ ~out.raised
     /\ out.calls # <<>>
     /\ \A i \in DOMAIN out.calls : CallFailed(out.pv, out.calls[i])) =>
        IF out.verb \in HistoricalVerbs
        THEN ~out.none /\ ~out.env.success /\ out.env.error # ""
        ELSE ~out.rt.success /\ out.rt.error # ""

\* C10: DataCache.get never raises and returns absent on an I/O or
\* deserialization error; DataCache.set never raises, and a set that fails
\* leaves the enclosing operation's result as it is without the failure.
C10_CacheFailsOpen ==
    Answered =>
        /\ \A d \in {out.before, disk}, fault \in {"none", "io"} :
              LET got == DataCache_get(d, QueryParts(out).symbol, QueryParts(out).start,
                                       QueryParts(out).end, QueryParts(out).type,
                                       out.at, fault)
              IN  /\ ~got.raised
                  /\ (\/ fault = "io"
                      \/ (QueryKey(out) \in DOMAIN d /\ ~d[QueryKey(out)].ok)) => ~got.hit
        /\ \A fault \in {"none", "open", "dump"} :
              ~DataCache_set(disk, QueryParts(out).symbol, QueryParts(out).start,
                             QueryParts(out).end, QueryParts(out).type,
                             out.env, out.at, fault).raised
        /\ out.pv.getFault = "io" =>
              LET r == Replay(out, Without(out.before, QueryKey(out)),
                              [out.pv EXCEPT !.getFault = "none"])
              IN  r.none = out.none /\ r.env = out.env /\ r.calls = out.calls
        /\ out.pv.setFault # "none" =>
              LET r == Replay(out, out.before, [out.pv EXCEPT !.setFault = "none"])
              IN  r.none = out.none /\ r.env = out.env /\ r.calls = out.calls

\* a file left unreadable by a failed write is read as absent, the data is
\* fetched, and the write fails again without harm to the result
C10_Witness ==
    /\ Answered
    /\ QueryKey(out) \in DOMAIN out.before
    /\ ~out.before[QueryKey(out)].ok
    /\ AgeFor(out) <= TTL
    /\ out.pv.setFault = "dump"
    /\ out.calls # <<>>
    /\ out.env.success

\* the endpoints tried only after another endpoint raised, each with the
\* endpoint it stands in for
PrimaryOf(call) ==
    CASE call = "index_zh_a_hist" -> "stock_zh_index_daily"
      [] call = "index_zh_a_spot_em" -> "stock_zh_index_spot_em"
      [] call = "tool_trade_date_hist_sina" -> "index_zh_a_spot_em"

FallbackEndpoints == {"index_zh_a_hist", "index_zh_a_spot_em", "tool_trade_date_hist_sina"}

\* the operations that have no alternative endpoint
SingleEndpoints ==
    {"stock_zh_a_hist", "stock_zh_a_hist_min_em", "stock_zh_a_spot_em", "stock_zh_a_minute"}

\* the provider call raised (also: the selection of the code's row raised)
CallRaised(pv, call) ==
    CASE call = "stock_zh_index_daily" -> pv.idx1.raises
      [] call = "index_zh_a_hist" -> pv.idx2.raises
      [] call = "stock_zh_index_spot_em" -> pv.spot1.raises
      [] call = "index_zh_a_spot_em" -> pv.spot2.raises
      [] OTHER -> FALSE

\* the endpoint class cls tries next when call raised
HasFallback(cls, call) ==
    \/ call \in {"stock_zh_index_daily", "stock_zh_index_spot_em"}
    \/ cls = "RDS" /\ call = "index_zh_a_spot_em"

\* C11, as the claim states it: an invocation issues at most one provider
\* request, and none after a provider call failed.
C11_OneProviderCall ==
    (out.phase = "done" /\ ~out.raised) =>
        /\ Len(out.calls) <= 1
        /\ \A i \in DOMAIN out.calls :
              CallFailed(out.pv, out.calls[i]) => i = Len(out.calls)

\* C11, amended: within one invocation no provider request is issued twice
\* (a failed request is never retried); the stock history, minute, stock
\* quote and tick operations issue at most one request; an index operation
\* tries its alternative endpoint exactly when, and only when, the endpoint
\* before it raised (index_zh_a_hist after stock_zh_index_daily,
\* index_zh_a_spot_em after stock_zh_index_spot_em, and in
\* RealtimeDataService tool_trade_date_hist_sina after index_zh_a_spot_em);
\* get_index_data may add the realtime quote request for today's row and
\* get_market_realtime issues one request per index.
C11_NoRetryOnlyFallback ==
    (out.phase = "done" /\ ~out.raised) =>
        /\ \A i, j \in DOMAIN out.calls : i # j => out.calls[i] # out.calls[j]
        /\ (out.calls # <<>> /\ out.calls[1] \in SingleEndpoints) => Len(out.calls) = 1
        /\ \A i \in DOMAIN out.calls :
              /\ out.calls[i] \in FallbackEndpoints =>
                    /\ i > 1
                    /\ out.calls[i - 1] = PrimaryOf(out.calls[i])
                    /\ CallRaised(out.pv, out.calls[i - 1])
              /\ (HasFallback(out.cls, out.calls[i]) /\ CallRaised(out.pv, out.calls[i])) =>
                    /\ i < Len(out.calls)
                    /\ out.calls[i + 1] \in FallbackEndpoints
                    /\ PrimaryOf(out.calls[i + 1]) = out.calls[i]

\* an index history served by the second endpoint after the first raised,
\* followed by the quote request for today's row
C11_Witness ==
    /\ Answered
    /\ out.env.success
    /\ Len(out.calls) = 3
    /\ out.calls[1] = "stock_zh_index_daily"
    /\ out.calls[2] = "index_zh_a_hist"
    /\ out.calls[3] = "stock_zh_index_spot_em"

\* the validated date range of a daily, weekly or monthly invocation o
RangeOf(o) == <<DayOf(QueryParts(o).start), DayOf(QueryParts(o).end)>>

\* the history frame invocation o received
FrameOf(o) ==
    IF QueryParts(o).type = TypeIndex
    THEN IF o.pv.idx1.raises THEN o.pv.idx2 ELSE o.pv.idx1
    ELSE o.pv.hist

\* the provider gave one row per day, and stock_zh_a_hist, which is passed
\* the range, only rows inside it
ProviderHonoursRange(o) ==
    /\ \A i, j \in DOMAIN FrameOf(o).rows :
          i # j => FrameOf(o).rows[i].date # FrameOf(o).rows[j].date
    /\ QueryParts(o).type = TypeStock =>
          \A i \in DOMAIN FrameOf(o).rows :
              /\ RangeOf(o)[1] <= FrameOf(o).rows[i].date
              /\ FrameOf(o).rows[i].date <= RangeOf(o)[2]

\* a successful daily, weekly or monthly envelope built from provider data
FreshHistory ==
    /\ Answered
    /\ ~out.none
    /\ out.env.success
    /\ out.period \notin MinutePeriods
    /\ out.calls # <<>>

\* C12: in every successful daily, weekly and monthly envelope each bar's
\* date lies in the validated [start_date, end_date] of the query and no
\* two bars share a date.  (Stated for envelopes built from a provider
\* frame that has one row per day and, for stock_zh_a_hist, only rows of
\* the requested range, so that only the code's own dates are judged.)
C12_BarsInRangeUnique ==
    (FreshHistory /\ ProviderHonoursRange(out)) =>
        /\ \A i \in DOMAIN out.env.data :
              /\ RangeOf(out)[1] <= out.env.data[i].date
              /\ out.env.data[i].date <= RangeOf(out)[2]
        /\ \A i, j \in DOMAIN out.env.data :
              i # j => out.env.data[i].date # out.env.data[j].date

\* _normalize_data_format has returned
NormalizedDone == out.phase = "done" /\ out.verb = "normalize"

\* the frame with a volume column that holds no value
WithBlankVolume(df) ==
    Table(df.cols \cup {"volume"},
          [i \in DOMAIN df.rows |-> [df.rows[i] EXCEPT !.volume = NaN]])

\* C13: for a non-empty frame that, after the rename, lacks any of date,
\* open, close, high, low, _normalize_data_format returns success = false,
\* data = [] and an error message that names exactly the missing columns;
\* a frame that lacks only volume is treated as one whose volume column is
\* blank, and every bar's volume is 0.
C13_MissingColumns ==
    (NormalizedDone /\ inp.df.rows # <<>>) =>
        IF \E c \in {"date", "open", "close", "high", "low"} : c \notin inp.df.cols
        THEN /\ ~out.env.success
             /\ out.env.data = <<>>
             /\ out.env.error =
                   MissingMessage(SelectSeq(<<"date", "open", "close", "high", "low">>,
                                            LAMBDA c : c \notin inp.df.cols))
        ELSE "volume" \notin inp.df.cols =>
                /\ out.env = _normalize_data_format(WithBlankVolume(inp.df), inp.symbol,
                                                    inp.type, out.at)
                /\ \A i \in DOMAIN out.env.data : out.env.data[i].volume = 0

\* a frame without close and low columns is refused with both names
C13_Witness ==
    /\ NormalizedDone
    /\ inp.df.rows # <<>>
    /\ inp.df.cols = AllCols \ {"close", "low"}
    /\ ~out.env.success
    /\ out.env.error = "missing columns: ['close', 'low']"

\* a successful historical envelope, whatever its period
Succeeded == Answered /\ ~out.none /\ out.env.success

\* C14: in every bar of every successful daily, minute, weekly and monthly
\* envelope, open, close, high and low are numbers (the provider's value,
\* or 0 where it was missing or not numeric) and volume is an integer; no
\* bar carries a missing or not-a-number value.
C14_NoMissingValue ==
    Succeeded =>
        \A i \in DOMAIN out.env.data :
            /\ notna(out.env.data[i].open)
            /\ notna(out.env.data[i].close)
            /\ notna(out.env.data[i].high)
            /\ notna(out.env.data[i].low)
            /\ out.env.data[i].volume \in Int

\* C15: cache files are removed only lazily.  An invocation, whose
\* DataCache.get and DataCache.set both act on the key k of its query,
\* leaves the file of every other key as it was (expired or not) and
\* creates none; it removes the file of k only if that file was older than
\* 3600 seconds, and changes it only by writing it anew.
C15_OnlyOwnKeyTouched ==
    Answered =>
        /\ \A f \in (DOMAIN out.before \cup DOMAIN disk) \ {QueryKey(out)} :
              /\ f \in DOMAIN out.before
              /\ f \in DOMAIN disk
              /\ disk[f] = out.before[f]
        /\ (QueryKey(out) \in DOMAIN out.before /\ QueryKey(out) \notin DOMAIN disk) =>
              AgeFor(out) > TTL
        /\ (/\ QueryKey(out) \in DOMAIN out.before
            /\ QueryKey(out) \in DOMAIN disk
            /\ disk[QueryKey(out)] # out.before[QueryKey(out)]) =>
              disk[QueryKey(out)].mtime = out.at

\* the expired file of another key is still there after an invocation that
\* looked up, fetched and stored its own
C15_Witness ==
    /\ Answered
    /\ QueryKey(out) \in DOMAIN disk
    /\ disk[QueryKey(out)].mtime = out.at
    /\ \E f \in DOMAIN disk :
          /\ f # QueryKey(out)
          /\ out.at - disk[f].mtime > TTL

\* the realtime methods that keep their result in the instance's maps
CachedMethods == {"get_realtime_data", "get_index_realtime_data", "get_market_realtime"}

\* the key under which method call o keeps its result
RtKeyOf(o) ==
    CASE o.verb = "get_realtime_data" -> KeyRealtime(o.symbol)
      [] o.verb = "get_index_realtime_data" -> KeyIndexRealtime(o.symbol)
      [] OTHER -> KeyMarket

\* a realtime method call found a stored result for its key
RepeatedRealtime ==
    /\ out.phase = "done"
    /\ out.verb \in CachedMethods
    /\ RtKeyOf(out) \in DOMAIN out.rcBefore
    /\ RtKeyOf(out) \in DOMAIN out.rlBefore

\* served from the maps, which stay as they were
ServedFromMaps ==
    /\ out.rt = out.rcBefore[RtKeyOf(out)]
    /\ out.calls = <<>>
    /\ svcCache[out.cls] = out.rcBefore
    /\ svcLast[out.cls] = out.rlBefore

\* the entry of the call's key holds the call's result and time
EntryReplaced ==
    /\ svcCache[out.cls][RtKeyOf(out)] = out.rt
    /\ svcLast[out.cls][RtKeyOf(out)] = out.at

\* C16, as the claim states it: a realtime query repeated less than 60
\* seconds after the stored result's time returns the stored result without
\* a provider call; at 60 seconds or more the provider is called again and
\* the stored result and its timestamp are replaced.
C16_RealtimeWindowReplaces ==
    RepeatedRealtime =>
        IF out.at - out.rlBefore[RtKeyOf(out)] < CacheDuration
        THEN ServedFromMaps
        ELSE out.calls # <<>> /\ EntryReplaced

\* C16, amended: a realtime query repeated less than 60 seconds after the
\* stored result's time returns the stored result without a provider call;
\* at 60 seconds or more the provider is called again, and the stored
\* result and its timestamp are replaced if the new result is a success,
\* while a failed refresh is returned to the caller and leaves the old
\* result and timestamp in the maps.
C16_RealtimeWindow ==
    RepeatedRealtime =>
        IF out.at - out.rlBefore[RtKeyOf(out)] < CacheDuration
        THEN ServedFromMaps
        ELSE /\ out.calls # <<>>
             /\ IF out.rt.success THEN EntryReplaced
                ELSE /\ svcCache[out.cls] = out.rcBefore
                     /\ svcLast[out.cls] = out.rlBefore

\* a quote stored 60 seconds ago was fetched again and replaced
C16_Witness ==
    /\ RepeatedRealtime
    /\ out.at - out.rlBefore[RtKeyOf(out)] = CacheDuration
    /\ out.rt.success
    /\ out.calls # <<>>
    /\ EntryReplaced
    /\ out.rcBefore[RtKeyOf(out)] # out.rt

\* every writer has closed the file
AllWritersDone == \A w \in Writers : out.pos[w] = inp[w] + 1

\* C17: when parallel invocations write the same cache key, once all
\* writers have finished the file holds exactly the envelope one of them
\* wrote, and a concurrent reader obtains absent or one writer's complete
\* envelope, never a mixture of two.
C17_LastWriterWins ==
    /\ AllWritersDone => \E w \in Writers : WholeTextOf(disk.text, w)
    /\ out.got # "mixture"

\* C18: in every successful historical envelope the bars of data are in
\* non-decreasing order of date, whatever the order of the provider's rows,
\* and currentPrice is the close of the last bar.
C18_SortedAndCurrent ==
    Succeeded =>
        /\ \A i, j \in DOMAIN out.env.data :
              i < j => out.env.data[i].date <= out.env.data[j].date
        /\ out.env.data # <<>>
        /\ out.env.currentPrice = out.env.data[Len(out.env.data)].close

\* a daily envelope built from provider rows that came latest first
C18_Witness ==
    /\ Succeeded
    /\ out.period = PDaily
    /\ out.calls = <<"stock_zh_a_hist">>
    /\ Len(out.pv.hist.rows) >= 2
    /\ out.pv.hist.rows[1].date > out.pv.hist.rows[2].date
    /\ Len(out.env.data) = Len(out.pv.hist.rows)

\* bar i has the least of the positive lows
LeastPositiveLow(i) ==
    /\ GT(out.env.data[i].low, Num(0))
    /\ \A j \in DOMAIN out.env.data :
          GT(out.env.data[j].low, Num(0)) => ~LT(out.env.data[j].low, out.env.data[i].low)

\* bar i has the greatest high
GreatestHigh(i) ==
    /\ notna(out.env.data[i].high)
    /\ \A j \in DOMAIN out.env.data : ~GT(out.env.data[j].high, out.env.data[i].high)

\* C19, as the claim states it: in every successful envelope with a bar,
\* summary.minPrice is the minimum of the lows that are strictly positive,
\* hence positive itself, and summary.maxPrice is the maximum of the highs.
C19_MinMaxExact ==
    (Succeeded /\ out.env.data # <<>>) =>
        /\ \E i \in DOMAIN out.env.data :
              LeastPositiveLow(i) /\ out.env.summary.minPrice = out.env.data[i].low
        /\ GT(out.env.summary.minPrice, Num(0))
        /\ \E i \in DOMAIN out.env.data :
              GreatestHigh(i) /\ out.env.summary.maxPrice = out.env.data[i].high

\* C19, amended: in every successful envelope with a bar, summary.minPrice
\* is the minimum of the strictly positive lows rounded to two decimals
\* (bars with low <= 0 never determine it; it is 0 when that minimum is
\* below 0.005), and summary.maxPrice is the maximum of the highs rounded
\* to two decimals.
C19_MinMaxRounded ==
    (Succeeded /\ out.env.data # <<>>) =>
        /\ \E i \in DOMAIN out.env.data :
              LeastPositiveLow(i) /\ out.env.summary.minPrice = round2(out.env.data[i].low)
        /\ ~LT(out.env.summary.minPrice, Num(0))
        /\ \E i \in DOMAIN out.env.data :
              GreatestHigh(i) /\ out.env.summary.maxPrice = round2(out.env.data[i].high)

\* a bar with a low of 0 did not determine minPrice, and maxPrice is not
\* the high of any bar
C19_Witness ==
    /\ Succeeded
    /\ \E i \in DOMAIN out.env.data : out.env.data[i].low = Num(0)
    /\ GT(out.env.summary.minPrice, Num(0))
    /\ \A i \in DOMAIN out.env.data : out.env.data[i].high # out.env.summary.maxPrice

\* an invocation that reaches get_index_data, without a cache fault
IndexQuery ==
    /\ Answered
    /\ out.symbol \in INDEX_CODE_MAPPING
    /\ out.period \notin MinutePeriods
    /\ NoFault(out)

\* the cache directory with a readable file, written just now, for o's key
Planted(o) ==
    MapPut(o.before, QueryKey(o),
           [mtime |-> o.at, ok |-> TRUE,
            env |-> [NoEnvelope EXCEPT !.success = TRUE, !.error = "planted"]])

\* C20: for an index query whose validated end_date is the current date,
\* get_index_data calls the provider even when the cache holds a fresh
\* envelope for the query, and never writes the cache; for any other
\* end_date a fresh cached envelope is returned without a provider call and
\* a successful fetched result is written to the cache.  (Stated for
\* invocations without a cache I/O fault.)
C20_TodayBypassesCache ==
    IndexQuery =>
        IF QueryParts(out).end = strftime(out.at)
        THEN /\ out.calls # <<>>
             /\ QueryKey(out) \in DOMAIN disk =>
                   /\ QueryKey(out) \in DOMAIN out.before
                   /\ disk[QueryKey(out)] = out.before[QueryKey(out)]
             /\ LET r == Replay(out, Planted(out), out.pv)
                IN  /\ r.calls = out.calls
                    /\ r.env = out.env
                    /\ r.disk = Planted(out)
        ELSE IF EntryFresh(out)
        THEN /\ out.calls = <<>>
             /\ disk = out.before
             /\ out.period \notin Resampling => out.env = out.before[QueryKey(out)].env
        ELSE /\ out.calls # <<>>
             /\ out.env.success =>
                   /\ QueryKey(out) \in DOMAIN disk
                   /\ disk[QueryKey(out)].ok
                   /\ disk[QueryKey(out)].mtime = out.at
                   /\ out.period \notin Resampling => disk[QueryKey(out)].env = out.env

\* an index history that ends today was fetched with success a second time
\* and is not in the cache
C20_Witness ==
    /\ IndexQuery
    /\ ncalls = 2
    /\ QueryParts(out).end = strftime(out.at)
    /\ out.env.success
    /\ out.calls # <<>>
    /\ QueryKey(out) \notin DOMAIN disk

\* _validate_date_range has returned for two dates strptime accepts
ValidatedWellFormed ==
    /\ out.phase = "done"
    /\ out.verb = "validate"
    /\ Parses(inp[1])
    /\ Parses(inp[2])

\* C21: for every pair of well-formed input dates, in either order and
\* also when one or both lie after the current date, the pair
\* _validate_date_range returns has start_date not later than end_date.
C21_StartNotAfterEnd ==
    ValidatedWellFormed => DayOf(out.start) <= DayOf(out.end)

\* an argument _validate_date_range does not accept: empty, or text
\* strptime rejects with ValueError
Unusable(date) == date = <<>> \/ ~Parses(date)

UnusableGiven == Unusable(inp[1]) \/ Unusable(inp[2])

\* the range (now - 30 days, now), both in canonical form
ThirtyDaysTo(now) == <<D(TodayOf(now) - 30), D(TodayOf(now))>>

\* C22: when either date argument is empty or is not a date strptime
\* accepts as %Y-%m-%d, _validate_date_range returns the default range
\* (the current date minus 30 days, the current date) and raises nothing:
\* the historical query goes on with that range, i.e. it asks the provider
\* and stores a successful answer under the key of the default range.
C22_DefaultRangeOnBadDates ==
    (out.phase = "done" /\ UnusableGiven) =>
        /\ out.verb = "validate" => <<out.start, out.end>> = ThirtyDaysTo(out.at)
        /\ out.verb = "stock" =>
              /\ ~out.none
              /\ ~out.raised
              /\ out.calls = <<"stock_zh_a_hist">>
              /\ out.env.success = ~out.pv.hist.raises
              /\ out.env.success =>
                    LET f == _get_cache_key(Sym600000, ThirtyDaysTo(out.at)[1],
                                            ThirtyDaysTo(out.at)[2], TypeStock)
                    IN  /\ DOMAIN disk = {f}
                        /\ disk[f].env = out.env

\* a query whose start date is not a date at all was answered successfully
C22_Witness ==
    /\ out.phase = "done"
    /\ out.verb = "stock"
    /\ inp[1] = NotADate
    /\ Parses(inp[2])
    /\ out.env.success

\* the calendar month of a day, counted from January 2024
MonthOf(day) == Cardinality({i \in DOMAIN MonthEnds : MonthEnds[i] < day})

\* two days of one calendar week (Monday..Sunday) or of one calendar month
SameBin(period, d1, d2) ==
    IF period = PWeekly THEN d1 \div 7 = d2 \div 7 ELSE MonthOf(d1) = MonthOf(d2)

\* the daily result the weekly or monthly invocation o started from
DailyOf(o) ==
    get_financial_data(o.symbol, KlineRange(o.period, o.start, o.end, o.at)[1],
                       KlineRange(o.period, o.start, o.end, o.at)[2],
                       o.at, o.before, o.pv)

\* bar is the aggregate of group, the daily bars of its week or month
AggregateOf(bar, group) ==
    /\ bar.volume = SumVolume(group)
    /\ group # <<>> =>
          /\ bar.open = group[1].open
          /\ bar.close = group[Len(group)].close
          /\ \E i \in DOMAIN group : bar.high = group[i].high
          /\ \A i \in DOMAIN group : ~GT(group[i].high, bar.high)
          /\ \E i \in DOMAIN group : bar.low = group[i].low
          /\ \A i \in DOMAIN group : ~LT(group[i].low, bar.low)

\* the bars of envelope env are the daily bars of days, week by week or
\* month by month
AggregatesDaily(period, env, days) ==
    /\ env.success
    /\ \A i \in DOMAIN env.data :
          AggregateOf(env.data[i],
                      SelectSeq(days, LAMBDA b : SameBin(period, b.date, env.data[i].date)))
    /\ \A i, j \in DOMAIN env.data :
          i # j => ~SameBin(period, env.data[i].date, env.data[j].date)
    /\ \A k \in DOMAIN days :
          \E i \in DOMAIN env.data : SameBin(period, days[k].date, env.data[i].date)
    /\ SumVolume(env.data) = SumVolume(days)

ResampledFrom(o, daily) ==
    /\ ~o.none
    /\ IF daily.env.success THEN AggregatesDaily(o.period, o.env, daily.env.data)
       ELSE o.env = daily.env

\* C23: for a successful daily result each weekly or monthly bar is the
\* aggregate of exactly the daily bars of its calendar week or month
\* (open of the first, close of the last, greatest high, least low, sum of
\* the volumes), so the volumes of the bars add up to the daily total;
\* when the daily fetch fails its failure envelope is returned unchanged.
C23_ResampleAggregates ==
    (Answered /\ out.verb = "kline" /\ out.period \in {PWeekly, PMonthly}) =>
        ResampledFrom(out, DailyOf(out))

TickDone == out.phase = "done" /\ out.verb = "get_realtime_tick_data"

\* the smaller of two numbers
Least(a, b) == IF a <= b THEN a ELSE b

\* data holds the last k rows, oldest first, each as time, price and volume
LastRows(data, rows, k) ==
    /\ Len(data) = k
    /\ \A i \in 1..k :
          LET row == rows[Len(rows) - k + i]
          IN  /\ data[i].time = row.date
              /\ data[i].price = (IF row.close.nan THEN Num(0) ELSE row.close)
              /\ data[i].volume = (IF row.volume.nan THEN 0 ELSE row.volume.v)

\* C24: on success get_realtime_tick_data (of either class) returns the
\* most recent min(count, available) rows of the provider's minute table
\* in the provider's order, its count field is len(data) and len(data) is
\* at most the count argument, for every number of rows count >= 0
\* (default 50); on an empty table or a provider exception it returns
\* success = false with data = [].
C24_TickTail ==
    TickDone =>
        /\ out.rt.success =>
              /\ LastRows(out.rt.data, inp.tick.rows, Least(inp.count, Len(inp.tick.rows)))
              /\ out.rt.count = Len(out.rt.data)
              /\ Len(out.rt.data) <= inp.count
        /\ (inp.tick.raises \/ inp.tick.rows = <<>>) =>
              /\ ~out.rt.success
              /\ out.rt.data = <<>>

\* fewer rows were asked for than the table holds
C24_Witness ==
    /\ TickDone
    /\ out.rt.success
    /\ 0 < inp.count
    /\ inp.count < Len(inp.tick.rows)
    /\ Len(out.rt.data) = inp.count

\* every cache file that holds a JSON document holds a successful envelope
\* (a file a failed write left behind holds no envelope at all)
OnlySuccessOnDisk == \A f \in DOMAIN disk : disk[f].ok => disk[f].env.success

\* out' repeats the query that out answered with a failure envelope
FailedThenRepeated ==
    /\ out.phase = "done"
    /\ out'.phase = "done"
    /\ out.verb \in HistoricalVerbs
    /\ out'.verb \in HistoricalVerbs
    /\ SameQuery(out, out')
    /\ ~out.none
    /\ ~out.env.success

\* C25: after any sequence of stock, index and kline operations every
\* envelope in the disk cache has success = true, a failure envelope is
\* never written, and so the invocation that repeats a failed query asks
\* the provider again.
C25_OnlySuccessCached ==
    /\ []OnlySuccessOnDisk
    /\ [][FailedThenRepeated => out'.calls # <<>>]_vars

\* the reader's get and the writer's set have both returned
BothFinished == out.rd = "done" /\ out.wr = inp.chunks + 1

\* C26: under parallel invocations a cache lookup never deletes a fresh
\* entry: a lookup only removes a file that is expired at that moment, and
\* when one process's lookup and another process's DataCache.set of the
\* same key have both finished, the envelope that was written is present.
C26_FreshEntrySurvives ==
    /\ [](BothFinished => (disk.exists /\ disk.text = TextOf(Writer, inp.chunks)))
    /\ [][(disk.exists /\ ~disk'.exists) =>
             clock - disk.mtime > CACHE_EXPIRE_HOURS * 3600]_vars

KeyStringOf(t) == _get_cache_key(t.symbol, t.start, t.end, t.type)

\* what DataCache.get returns for tuple t on directory d at time now
LookupOf(d, t, now) ==
    LET got == DataCache_get(d, t.symbol, t.start, t.end, t.type, now, "none")
    IN  [hit |-> got.hit, env |-> got.env]

\* this step is DataCache.set for tuple i
SetStep(i) == ncalls' = ncalls + 1 /\ out'.op = "set" /\ out'.i = i

\* C27: two key tuples (symbol, start_date, end_date, data_type) that
\* differ in a component are never joined into the same key string, so a
\* set for one tuple does not change what get returns for a different
\* tuple; and get for a tuple after set for the same tuple, within the
\* TTL, returns the envelope that was set.
C27_KeysDistinct ==
    /\ [](inp[1] # inp[2] => KeyStringOf(inp[1]) # KeyStringOf(inp[2]))
    /\ [][\A i, j \in {1, 2} :
            (SetStep(i) /\ inp[i] # inp[j]) =>
                LookupOf(disk', inp[j], clock') = LookupOf(disk, inp[j], clock')]_vars
    /\ [][\A i \in {1, 2} :
            SetStep(i) =>
                \A dt \in {0, CACHE_EXPIRE_HOURS * 3600} :
                    LookupOf(disk', inp[i], clock' + dt) = [hit |-> TRUE, env |-> out'.env]]_vars

\* C28: started from empty caches and given the same sequence of symbols,
\* times and provider responses, get_index_realtime_data of
\* FinancialDataService and of RealtimeDataService return the same success
\* value and the same fields at every call, for every symbol either module
\* lists in its INDEX_CODE_MAPPING.
C28_SameIndexRealtime ==
    (out.phase = "pair" /\ ncalls > 0) => out.fds = out.rds

\* a method call on a long-lived instance has returned
MethodReturned ==
    /\ out.phase = "done"
    /\ out.verb \in Methods("FDS")

\* C29: after any sequence of realtime operations on one service instance
\* the result map and the timestamp map have the same key set, every
\* stored result has success = true, and an operation that returns
\* success = false leaves both maps as they were.
C29_MapsInStep ==
    /\ \A cls \in {"FDS", "RDS"} :
          /\ DOMAIN svcCache[cls] = DOMAIN svcLast[cls]
          /\ \A key \in DOMAIN svcCache[cls] : svcCache[cls][key].success
    /\ (MethodReturned /\ ~out.rt.success) =>
          /\ svcCache[out.cls] = out.rcBefore
          /\ svcLast[out.cls] = out.rlBefore

\* a call that failed on an instance whose maps already held a result
C29_Witness ==
    /\ MethodReturned
    /\ ~out.rt.success
    /\ out.rcBefore # <<>>
    /\ out.verb \in CachedMethods
    /\ svcCache[out.cls] = out.rcBefore

====
